---- MODULE Spec2Model ----
(***************************************************************************)
(* Model of the agentic ideation repository.                               *)
(*                                                                         *)
(* Part 1: the Dispatcher, src/src/async_agent_processor.py                *)
(* (AsyncAgentProcessor).  One run of process_items over items 1..n_items. *)
(* Each batch is one asyncio task ("worker"); the code between two awaits  *)
(* of a task is one atomic step of the event loop.  A worker suspends at   *)
(* exactly three places: waiting for the admission gate                    *)
(* (asyncio.Semaphore), awaiting the processor call, and the backoff       *)
(* sleep.                                                                  *)
(*                                                                         *)
(* Spec is the untimed Dispatcher; TimedSpec is the Dispatcher with calls   *)
(* of one fixed duration and no failures.  Each specification leaves the    *)
(* variables of the other parts at their idle values.                       *)
(***************************************************************************)
EXTENDS Integers, Sequences, FiniteSets, TLC

\* ------------------------------------------------------------------ bounds
MaxItems == 3
MaxItemsPerBatch == 2
MaxCpuCores == 1
MaxAgentsPerCore == 2
MaxRetries == 3
\* the most processor calls one run may need: n_items * max_retries
MaxAttempts == 6
RetryDelay == 2
\* the timed scenario: number of items and the duration of one call
ScenarioItems == 10
CallDuration == 1
\* the most task entries a result tree holds
MaxEntries == 6
\* the pipeline runs: the most chunks, deep-dive groups, deep-dive agent
\* types (over all groups) and deep-dive agents (over all types)
MaxChunks == 3
MaxGroups == 2
MaxTypes == 2
MaxAgents == 2

\* The value a call yields when it "returns no value" (make_api_call).
None == 0

\* ------------------------------------------------------------------ state
VARIABLES
    config,        \* AgentConfig: cpu_cores, agents_per_core, items_per_batch,
                   \*              max_retries, retry_delay
    n_items,       \* len(items); the items are 1..n_items, item i has value i
    always_fail,   \* input: the processor raises or times out on every call
    ppc,           \* position of process_items: "init","gather","returned","raised"
    returned,      \* the list process_items returned
    agent_stats,   \* agent_id -> [processed, failed, api_calls]
    sem_value,     \* api_semaphore._value, the free slots of the gate
    sem_waiters,   \* api_semaphore._waiters, FIFO, workers by id
    loc,           \* worker -> [pc, idx, attempt, results]
    attempts,      \* history: item -> number of processor calls ended
    last_kind,     \* history: item -> how its last call ended
    waits,         \* history: item -> the backoff delays slept, in order
    admitted,      \* history: number of attempts admitted through the gate
    clock,         \* timed runs: the time elapsed since process_items was called
    started,       \* timed runs: worker -> the time its call in flight began
    results,       \* synthesis: the result tree, level -> focus -> task -> text
    chunks,        \* synthesis: the list chunk_hierarchical_results returned
    stage,         \* synthesis: the position of the synthesis code
    dd_config,     \* synthesis: the config argument, its deep_dive_agents
    calls,         \* synthesis: history, the remote calls issued, in order
    mem,           \* synthesis: the local variables of the pipeline functions
    result,        \* synthesis: the dict analyze_results returned
    fconfig,       \* front end: the Config (focus levels, agent groups)
    task_tree,     \* front end: the tree generate_hierarchical_tasks returned
    agents,        \* front end: the registry agent_factory returned
    fpc,           \* front end: the position of main / of the functions called
    task_list,     \* front end: execute_tasks' list of work items and calls
    pos,           \* front end: execute_tasks' position in its awaiting loop
    completed,     \* front end: execute_tasks' count of completed items
    snapshots,     \* front end: history, the completed counts of the snapshots
    arrivals,      \* front end: history, the calls in the order they ended
    raised,        \* front end: history, the functions that raised
    messages,      \* Discussion.messages: records [id, role, length, timestamp]
    max_messages,  \* Discussion.max_messages
    original,      \* history: Discussion.messages when prune_messages was called
    dpc            \* discussion: "idle", "built", "pruned", "raised"

dvars == <<config, n_items, always_fail, ppc, returned, agent_stats, sem_value,
           sem_waiters, loc, attempts, last_kind, waits, admitted>>

tvars == <<clock, started>>

pvars == <<dd_config, calls, mem, result>>

fvars == <<fconfig, task_tree, agents, fpc, task_list, pos, completed, snapshots,
           arrivals, raised>>

mvars == <<messages, max_messages, original, dpc>>

svars == <<results, chunks, stage, pvars, fvars, mvars>>

vars == <<dvars, tvars, svars>>

\* ---------------------------------------------------------------- helpers
RECURSIVE SumTo(_, _)
SumTo(f, n) == IF n < 0 THEN 0 ELSE f[n] + SumTo(f, n - 1)

RECURSIVE Concat(_, _)
Concat(ss, k) == IF k = 0 THEN <<>> ELSE Concat(ss, k - 1) \o ss[k]

SeqRange(s) == {s[k] : k \in 1..Len(s)}

\* -------------------------------------------------- AsyncAgentProcessor.__init__
total_agents == config.cpu_cores * config.agents_per_core

\* Faulty variant: one slot per agent.
capacity_one_per_agent == total_agents

Capacity == total_agents * 2

Lanes == 0..(total_agents - 1)

\* ------------------------------------------------------------ process_items
\* range(0, len(items), items_per_batch): the number of batches
NumBatches == (n_items + config.items_per_batch - 1) \div config.items_per_batch

Workers == 1..NumBatches

\* items[i:i + items_per_batch] for the w-th batch (w counted from 1)
Batch(w) ==
    LET first == (w - 1) * config.items_per_batch + 1
        last  == IF w * config.items_per_batch < n_items
                 THEN w * config.items_per_batch ELSE n_items
    IN  [k \in 1..(last - first + 1) |-> first + k - 1]

\* agent_id = i % total_agents for the batch of index i = w - 1
AgentOf(w) == (w - 1) % total_agents

CurItem(s, w) == Batch(w)[s.loc[w].idx]

\* ------------------------------------------------------- the mutable world
\* The actions below transform this record and write it back.
World ==
    [st |-> agent_stats, val |-> sem_value, wq |-> sem_waiters, loc |-> loc,
     att |-> attempts, lk |-> last_kind, wt |-> waits, adm |-> admitted]

Put(s) ==
    /\ agent_stats' = s.st
    /\ sem_value' = s.val
    /\ sem_waiters' = s.wq
    /\ loc' = s.loc
    /\ attempts' = s.att
    /\ last_kind' = s.lk
    /\ waits' = s.wt
    /\ admitted' = s.adm

\* ------------------------------------------- asyncio.Semaphore (the gate)
\* Semaphore.locked(): no free slot, or somebody is already queued.
locked(s) == s.val = 0 \/ s.wq # <<>>

\* Semaphore._wake_up_next(): hand a slot to the first waiter not yet woken.
wake_up_next(s) ==
    LET waiting == {k \in 1..Len(s.wq) : s.loc[s.wq[k]].pc = "wait"}
    IN  IF waiting = {} THEN s
        ELSE LET k == CHOOSE x \in waiting : \A y \in waiting : x <= y
                 w == s.wq[k]
             IN  [s EXCEPT !.val = @ - 1, !.loc[w].pc = "granted", !.adm = @ + 1]

\* Semaphore.acquire(), up to its suspension.
acquire(s, w) ==
    IF ~locked(s)
    THEN [s EXCEPT !.val = @ - 1, !.loc[w].pc = "call", !.adm = @ + 1]
    ELSE [s EXCEPT !.wq = Append(@, w), !.loc[w].pc = "wait"]

\* Semaphore.acquire(), from the wake-up of its future to its return.
acquire_resume(s, w) ==
    LET s1 == [s EXCEPT !.wq = SelectSeq(@, LAMBDA x : x # w),
                        !.loc[w].pc = "call"]
    IN  IF s1.val > 0 THEN wake_up_next(s1) ELSE s1

\* Semaphore.release()
release(s) == wake_up_next([s EXCEPT !.val = @ + 1])

\* ------------------------------------------------------ _api_call_context
\* Faulty variant: the call is made without passing the gate.
enter_without_gate(s, w) ==
    [s EXCEPT !.loc[w].pc = "call", !.adm = @ + 1]

\* Entering the context: `async with self.api_semaphore`.
api_call_context_enter(s, w) == acquire(s, w)

\* Faulty variant: the call is counted after the yield instead of in a finally clause,
\* so a failed attempt is not counted.
exit_counts_success_only(s, a, ok) ==
    IF ok THEN [release(s) EXCEPT !.st[a].api_calls = @ + 1] ELSE release(s)

\* Faulty variant: the slot is released after the body instead of by the context
\* manager, so an exception skips the release.
exit_leaks_on_error(s, a, ok) ==
    IF ok THEN [release(s) EXCEPT !.st[a].api_calls = @ + 1]
    ELSE [s EXCEPT !.st[a].api_calls = @ + 1]

\* Leaving the context, normally (ok) or by an exception: the semaphore's
\* __aexit__ releases the slot, then the finally clause counts the call.
api_call_context_exit(s, a, ok) ==
    [release(s) EXCEPT !.st[a].api_calls = @ + 1]

\* ---------------------------------------------------- _process_with_retry
Kinds == {"ok", "none", "raise", "timeout"}

FailKinds == {"raise", "timeout"}

\* `except Exception` catches the processor's exception and the TimeoutError
\* that asyncio.timeout raises alike.
is_caught(kind) == kind \in FailKinds

\* Faulty variant: a constant delay between attempts.
backoff_constant(attempt) == config.retry_delay

\* asyncio.sleep(self.config.retry_delay * (attempt + 1))
backoff_delay(attempt) == config.retry_delay * (attempt + 1)

RECURSIVE agent_process_batch(_, _)
RECURSIVE process_with_retry(_, _)

\* The head of `for attempt in range(max_retries)`, loc[w].attempt being the
\* value the loop is about to take.  When the range is exhausted the function
\* falls off its end and returns None, which the batch loop appends.
process_with_retry(s, w) ==
    IF s.loc[w].attempt < config.max_retries
    THEN api_call_context_enter(s, w)
    ELSE agent_process_batch(
             [s EXCEPT !.loc[w].results = Append(@, None),
                       !.loc[w].idx = @ + 1], w)

\* The head of `for item in batch`, loc[w].idx being the next position.
agent_process_batch(s, w) ==
    IF s.loc[w].idx > Len(Batch(w))
    THEN [s EXCEPT !.loc[w].pc = "done"]
    ELSE process_with_retry([s EXCEPT !.loc[w].attempt = 0], w)

\* Faulty variant: a timeout is not retried, it fails the item at once.
on_exception_timeout_final(s, w, kind) ==
    LET a == AgentOf(w)
        i == CurItem(s, w)
        k == s.loc[w].attempt
    IN  IF k = config.max_retries - 1 \/ kind = "timeout"
        THEN agent_process_batch(
                 [s EXCEPT !.st[a].failed = @ + 1, !.loc[w].idx = @ + 1], w)
        ELSE [s EXCEPT !.loc[w].pc = "sleep",
                       !.wt[i] = Append(@, backoff_delay(k))]

\* Faulty variant: failed is counted on every failed attempt, not once per item.
on_exception_counts_each_attempt(s, w, kind) ==
    LET a == AgentOf(w)
        i == CurItem(s, w)
        k == s.loc[w].attempt
    IN  IF k = config.max_retries - 1
        THEN agent_process_batch(
                 [s EXCEPT !.st[a].failed = @ + 1, !.loc[w].idx = @ + 1], w)
        ELSE [s EXCEPT !.st[a].failed = @ + 1, !.loc[w].pc = "sleep",
                       !.wt[i] = Append(@, backoff_delay(k))]

\* Faulty variant: an item is given up after its second failed attempt.
on_exception_one_retry_only(s, w, kind) ==
    LET a == AgentOf(w)
        i == CurItem(s, w)
        k == s.loc[w].attempt
    IN  IF k = config.max_retries - 1 \/ k = 1
        THEN agent_process_batch(
                 [s EXCEPT !.st[a].failed = @ + 1, !.loc[w].idx = @ + 1], w)
        ELSE [s EXCEPT !.loc[w].pc = "sleep",
                       !.wt[i] = Append(@, backoff_delay(k))]

\* Faulty variant: an item that used up its attempts leaves None in the results.
on_exception_appends_none(s, w, kind) ==
    LET a == AgentOf(w)
        i == CurItem(s, w)
        k == s.loc[w].attempt
    IN  IF k = config.max_retries - 1
        THEN agent_process_batch(
                 [s EXCEPT !.st[a].failed = @ + 1, !.loc[w].idx = @ + 1,
                           !.loc[w].results = Append(@, None)], w)
        ELSE [s EXCEPT !.loc[w].pc = "sleep",
                       !.wt[i] = Append(@, backoff_delay(k))]

\* The except clause of _process_with_retry for a caught failure of attempt
\* loc[w].attempt: the last attempt counts the item failed and re-raises into
\* _agent_process_batch, which logs and goes on; any other attempt sleeps.
on_exception(s, w, kind) ==
    LET a == AgentOf(w)
        i == CurItem(s, w)
        k == s.loc[w].attempt
    IN  IF k = config.max_retries - 1
        THEN agent_process_batch(
                 [s EXCEPT !.st[a].failed = @ + 1, !.loc[w].idx = @ + 1], w)
        ELSE [s EXCEPT !.loc[w].pc = "sleep",
                       !.wt[i] = Append(@, backoff_delay(k))]

\* The value the processor hands back: the item's value, or no value.
ResultOf(i, kind) == IF kind = "ok" THEN i ELSE None

\* Faulty variant: the backoff is waited out inside the admission gate, the
\* slot of a failed attempt being kept unless the attempt was the last.
call_ends_backoff_inside_gate(s, w, kind) ==
    LET a  == AgentOf(w)
        i  == CurItem(s, w)
        s1 == [s EXCEPT !.att[i] = @ + 1, !.lk[i] = kind]
    IN  IF is_caught(kind)
        THEN IF s.loc[w].attempt = config.max_retries - 1
             THEN on_exception(api_call_context_exit(s1, a, FALSE), w, kind)
             ELSE on_exception([s1 EXCEPT !.st[a].api_calls = @ + 1], w, kind)
        ELSE LET s2 == [s1 EXCEPT !.st[a].processed = @ + 1]
                 s3 == api_call_context_exit(s2, a, TRUE)
             IN  agent_process_batch(
                     [s3 EXCEPT !.loc[w].results = Append(@, ResultOf(i, kind)),
                                !.loc[w].idx = @ + 1], w)

\* The processor call of worker w ends in `kind`: the rest of the attempt and
\* everything up to the worker's next suspension.
call_ends(s, w, kind) ==
    LET a  == AgentOf(w)
        i  == CurItem(s, w)
        s1 == [s EXCEPT !.att[i] = @ + 1, !.lk[i] = kind]
    IN  IF is_caught(kind)
        THEN on_exception(api_call_context_exit(s1, a, FALSE), w, kind)
        ELSE LET s2 == [s1 EXCEPT !.st[a].processed = @ + 1]
                 s3 == api_call_context_exit(s2, a, TRUE)
             IN  agent_process_batch(
                     [s3 EXCEPT !.loc[w].results = Append(@, ResultOf(i, kind)),
                                !.loc[w].idx = @ + 1], w)

\* -------------------------------------------------------------- _log_stats
total_api_calls == SumTo([a \in Lanes |-> agent_stats[a].api_calls], total_agents - 1)

\* total_api_time/total_api_calls and stats.total_api_time/stats.api_calls
\* raise ZeroDivisionError when the divisor is 0.
log_stats_raises ==
    \/ total_api_calls = 0
    \/ \E a \in Lanes : agent_stats[a].api_calls = 0

\* ------------------------------------------------------------------ actions
\* The clock of the timed runs, unused.
TimeIdle == clock = 0 /\ started = <<>>

\* An Optional[str] of the synthesis code: None, or a text as the sequence
\* of its parts, each part a triple <<what, a, b>>.
NoneText == [is_none |-> TRUE, parts |-> <<>>]

Text(parts) == [is_none |-> FALSE, parts |-> parts]

\* The pipeline before analyze_results is called.
PipeIdle ==
    /\ calls = <<>>
    /\ mem = [chunk_summaries |-> <<>>, idx |-> 0, initial_summary |-> NoneText,
              key_areas |-> NoneText, type_idx |-> 0, agent_idx |-> 0,
              agent_findings |-> <<>>, deep_dive_findings |-> <<>>]
    /\ result = [initial_summary |-> NoneText, deep_dive_analysis |-> NoneText]

\* No Discussion has been built.
DiscussionUnused ==
    /\ messages = <<>>
    /\ max_messages = 0
    /\ original = <<>>
    /\ dpc = "idle"

\* The front end (task tree, agent registry, execute_tasks) before it runs.
FrontIdle ==
    /\ DiscussionUnused
    /\ task_tree = <<>>
    /\ agents = <<>>
    /\ task_list = <<>>
    /\ pos = 0
    /\ completed = 0
    /\ snapshots = <<>>
    /\ arrivals = <<>>
    /\ raised = {}

\* The front end, unused.
FrontUnused ==
    /\ fconfig = [focus_levels |-> <<>>,
                  analysis_agents |-> [kind |-> "absent", groups |-> <<>>],
                  deep_dive_agents |-> [kind |-> "none", groups |-> <<>>]]
    /\ fpc = "idle"
    /\ FrontIdle

\* The synthesis code, unused.
SynthIdle ==
    /\ results = <<>> /\ chunks = <<>> /\ stage = "idle"
    /\ dd_config = [kind |-> "none", groups |-> <<>>]
    /\ PipeIdle
    /\ FrontUnused

Init ==
    /\ TimeIdle
    /\ SynthIdle
    /\ config \in [cpu_cores : 1..MaxCpuCores,
                   agents_per_core : 1..MaxAgentsPerCore,
                   items_per_batch : 1..MaxItemsPerBatch,
                   max_retries : 0..MaxRetries,
                   retry_delay : {RetryDelay}]
    /\ n_items \in 0..MaxItems
    /\ n_items * config.max_retries <= MaxAttempts
    /\ always_fail \in BOOLEAN
    /\ ppc = "init"
    /\ returned = <<>>
    /\ agent_stats = [a \in Lanes |-> [processed |-> 0, failed |-> 0, api_calls |-> 0]]
    /\ sem_value = Capacity
    /\ sem_waiters = <<>>
    /\ loc = <<>>
    /\ attempts = [i \in 1..n_items |-> 0]
    /\ last_kind = [i \in 1..n_items |-> "-"]
    /\ waits = [i \in 1..n_items |-> <<>>]
    /\ admitted = 0

\* process_items up to `await asyncio.gather(...)`: one task per batch.
ProcessItemsCall ==
    /\ ppc = "init"
    /\ ppc' = "gather"
    /\ loc' = [w \in Workers |->
                 [pc |-> "start", idx |-> 1, attempt |-> 0, results |-> <<>>,
                  exc |-> FALSE]]
    /\ UNCHANGED <<config, n_items, always_fail, returned, agent_stats,
                   sem_value, sem_waiters, attempts, last_kind, waits, admitted>>

\* The task of batch w runs for the first time.
BatchStart(w) ==
    /\ ppc = "gather"
    /\ loc[w].pc = "start"
    /\ Put(agent_process_batch(World, w))
    /\ UNCHANGED <<config, n_items, always_fail, ppc, returned>>

\* A queued worker that was handed a slot runs again and starts its call.
GateResume(w) ==
    /\ ppc = "gather"
    /\ loc[w].pc = "granted"
    /\ Put(acquire_resume(World, w))
    /\ UNCHANGED <<config, n_items, always_fail, ppc, returned>>

\* The processor call of worker w ends: with a value, with no value, by an
\* exception, or cut off by asyncio.timeout(api_timeout).
CallEnds(w) ==
    /\ ppc = "gather"
    /\ loc[w].pc = "call"
    /\ \E kind \in Kinds :
          /\ always_fail => kind \in FailKinds
          /\ Put(call_ends(World, w, kind))
    /\ UNCHANGED <<config, n_items, always_fail, ppc, returned>>

\* The backoff sleep of worker w is over: the next attempt.
SleepEnds(w) ==
    /\ ppc = "gather"
    /\ loc[w].pc = "sleep"
    /\ Put(process_with_retry([World EXCEPT !.loc[w].attempt = @ + 1], w))
    /\ UNCHANGED <<config, n_items, always_fail, ppc, returned>>

\* gather returns: collect the batch results (skipping a batch that ended in
\* an exception), then _log_stats, then return.
ProcessItemsFinish ==
    /\ ppc = "gather"
    /\ \A w \in Workers : loc[w].pc = "done"
    /\ LET outcome == Concat([w \in Workers |->
                                 IF loc[w].exc THEN <<>> ELSE loc[w].results],
                             NumBatches)
       IN  IF log_stats_raises
           THEN ppc' = "raised" /\ returned' = <<>>
           ELSE ppc' = "returned" /\ returned' = outcome
    /\ UNCHANGED <<config, n_items, always_fail, agent_stats, sem_value,
                   sem_waiters, loc, attempts, last_kind, waits, admitted>>

Next ==
    \/ ProcessItemsCall /\ UNCHANGED <<tvars, svars>>
    \/ \E w \in Workers : BatchStart(w) /\ UNCHANGED <<tvars, svars>>
    \/ \E w \in Workers : GateResume(w) /\ UNCHANGED <<tvars, svars>>
    \/ \E w \in Workers : CallEnds(w) /\ UNCHANGED <<tvars, svars>>
    \/ \E w \in Workers : SleepEnds(w) /\ UNCHANGED <<tvars, svars>>
    \/ ProcessItemsFinish /\ UNCHANGED <<tvars, svars>>

Spec == Init /\ [][Next]_vars

\* ------------------------------------------- the Dispatcher with timed calls
\* AgentConfig defaults
DefaultItemsPerBatch == 10

DefaultMaxRetries == 3

\* the batch sizes of the timed runs
TimedBatchSizes == {1, 3, 4, DefaultItemsPerBatch}

TimedInit ==
    /\ SynthIdle
    /\ clock = 0
    /\ started = <<>>
    /\ config \in [cpu_cores : 1..MaxCpuCores,
                   agents_per_core : 1..MaxAgentsPerCore,
                   items_per_batch : TimedBatchSizes,
                   max_retries : {DefaultMaxRetries},
                   retry_delay : {RetryDelay}]
    /\ n_items = ScenarioItems
    /\ always_fail = FALSE
    /\ ppc = "init"
    /\ returned = <<>>
    /\ agent_stats = [a \in Lanes |-> [processed |-> 0, failed |-> 0, api_calls |-> 0]]
    /\ sem_value = Capacity
    /\ sem_waiters = <<>>
    /\ loc = <<>>
    /\ attempts = [i \in 1..n_items |-> 0]
    /\ last_kind = [i \in 1..n_items |-> "-"]
    /\ waits = [i \in 1..n_items |-> <<>>]
    /\ admitted = 0

\* A call that begins in this step (w is the worker taking the step) begins
\* at the present time.
Stamp(w) ==
    /\ clock' = clock
    /\ started' = [v \in DOMAIN loc' |->
                     IF loc'[v].pc = "call" /\ (loc[v].pc # "call" \/ v = w)
                     THEN clock ELSE started[v]]

\* Some step of the event loop can run without time passing: a task to
\* start or to resume, or a call whose duration is over.
ReadyNow ==
    \E w \in DOMAIN loc :
        \/ loc[w].pc \in {"start", "granted"}
        \/ loc[w].pc = "call" /\ clock >= started[w] + CallDuration

TimedCall ==
    /\ ProcessItemsCall
    /\ clock' = clock
    /\ started' = [w \in Workers |-> 0]

\* gather schedules the tasks in the order of the batches, and the event
\* loop runs them in that order.
TimedBatchStart(w) ==
    /\ ppc = "gather"
    /\ \A v \in Workers : v < w => loc[v].pc # "start"
    /\ BatchStart(w)
    /\ Stamp(w)

TimedGateResume(w) == GateResume(w) /\ Stamp(w)

\* The call of w has lasted CallDuration and ends with its value.
TimedCallEnds(w) ==
    /\ ppc = "gather"
    /\ loc[w].pc = "call"
    /\ clock >= started[w] + CallDuration
    /\ Put(call_ends(World, w, "ok"))
    /\ UNCHANGED <<config, n_items, always_fail, ppc, returned>>
    /\ Stamp(w)

\* Time passes only while the event loop has nothing to run.
Tick ==
    /\ ppc = "gather"
    /\ ~ReadyNow
    /\ \E w \in DOMAIN loc : loc[w].pc = "call"
    /\ clock' = clock + 1
    /\ UNCHANGED <<dvars, started>>

TimedNext ==
    \/ TimedCall /\ UNCHANGED svars
    \/ \E w \in Workers : TimedBatchStart(w) /\ UNCHANGED svars
    \/ \E w \in Workers : TimedGateResume(w) /\ UNCHANGED svars
    \/ \E w \in Workers : TimedCallEnds(w) /\ UNCHANGED svars
    \/ Tick /\ UNCHANGED svars
    \/ ProcessItemsFinish /\ UNCHANGED <<tvars, svars>>

TimedSpec == TimedInit /\ [][TimedNext]_vars

\* ================================================================= claims
\* Vocabulary of the claims about the Dispatcher.
Items == 1..n_items

BatchOf(i) == ((i - 1) \div config.items_per_batch) + 1

PosOf(i) == i - (BatchOf(i) - 1) * config.items_per_batch

ItemsOfLane(a) == {i \in Items : AgentOf(BatchOf(i)) = a}

\* The worker has left item i behind (success, final failure or fall-through).
Finished(i) ==
    /\ ppc # "init"
    /\ \/ loc[BatchOf(i)].pc = "done"
       \/ loc[BatchOf(i)].pc # "start" /\ loc[BatchOf(i)].idx > PosOf(i)

\* Item i ended with a failure on its last permitted attempt.
Exhausted(i) ==
    /\ Finished(i)
    /\ last_kind[i] \in FailKinds
    /\ attempts[i] = config.max_retries

Completed == ppc \in {"returned", "raised"}

InFlight == {w \in DOMAIN loc : loc[w].pc = "call"}

\* Workers that own a slot of the gate: calling, or woken with a slot in hand.
Holders == {w \in DOMAIN loc : loc[w].pc \in {"call", "granted"}}

RECURSIVE SumOver(_, _)
SumOver(f, S) ==
    IF S = {} THEN 0
    ELSE LET x == CHOOSE y \in S : TRUE IN f[x] + SumOver(f, S \ {x})

\* C1: at every instant the number of processor calls in flight is at most
\* the capacity of the admission gate.
C1_BoundedParallelism == Cardinality(InFlight) <= Capacity

\* C1 witness: the gate is full and a further worker is queued behind it.
C1_GateSaturated ==
    /\ Cardinality(InFlight) = Capacity
    /\ \E w \in DOMAIN loc : loc[w].pc = "wait"

\* C2: with a processor that fails on every call, every item the worker has
\* left behind was attempted exactly max_retries times, its lane counted
\* exactly one failure for it, and its error did not escape the batch task.
C2_AlwaysFailingItemFailsOnce ==
    (always_fail /\ ppc # "init") =>
        /\ \A i \in Items : Finished(i) => attempts[i] = config.max_retries
        /\ \A a \in Lanes :
              agent_stats[a].failed =
                  Cardinality({i \in ItemsOfLane(a) : Finished(i)})
        /\ \A w \in DOMAIN loc : ~loc[w].exc

\* C3: process_items never raises.
C3_ProcessItemsNeverRaises == ppc # "raised"

\* C4: once the run is over and some item exhausted its retries, every other
\* item was attempted, and every other item whose call yielded a value has
\* that value in the list process_items returned.
C4_SiblingsSurviveExhaustion ==
    Completed =>
        \A i \in Items : Exhausted(i) =>
            \A j \in Items \ {i} :
                /\ attempts[j] >= 1
                /\ last_kind[j] = "ok" =>
                      ppc = "returned" /\ j \in SeqRange(returned)

\* C5: an item whose call came back with no value is handled like a timed-out
\* one: it is retried until max_retries attempts are used, it is not counted
\* as processed, and no None is handed back as its result.
C5_NoValueIsAFailedAttempt ==
    \A i \in Items : (Finished(i) /\ last_kind[i] = "none") =>
        /\ attempts[i] = config.max_retries
        /\ agent_stats[AgentOf(BatchOf(i))].processed =
              Cardinality({j \in ItemsOfLane(AgentOf(BatchOf(i))) :
                              Finished(j) /\ last_kind[j] = "ok"})
        /\ None \notin SeqRange(loc[BatchOf(i)].results)

\* The call of worker w ends in this step, in the given way.
EndsAs(w, kind) ==
    /\ loc[w].pc = "call"
    /\ attempts'[CurItem(World, w)] = attempts[CurItem(World, w)] + 1
    /\ last_kind'[CurItem(World, w)] = kind

\* What the Dispatcher does with a failed attempt of worker w: the call is no
\* longer in flight, the item is not counted processed, the attempt is counted
\* as a call; the last attempt
\* counts the item failed and leaves it without a wait, any other attempt
\* keeps the item and sleeps retry_delay * (attempt + 1) before retrying it.
FailedAttemptHandled(w) ==
    LET a == AgentOf(w)
        i == CurItem(World, w)
        k == loc[w].attempt
    IN  /\ agent_stats'[a].processed = agent_stats[a].processed
        /\ agent_stats'[a].api_calls = agent_stats[a].api_calls + 1
        /\ IF k = config.max_retries - 1
           THEN /\ agent_stats'[a].failed = agent_stats[a].failed + 1
                /\ \/ loc'[w].pc = "done"
                   \/ loc'[w].idx = loc[w].idx + 1 /\ loc'[w].attempt = 0
                /\ waits'[i] = waits[i]
           ELSE /\ agent_stats'[a].failed = agent_stats[a].failed
                /\ loc'[w].pc = "sleep"
                /\ loc'[w].idx = loc[w].idx
                /\ loc'[w].attempt = k
                /\ waits'[i] = Append(waits[i], config.retry_delay * (k + 1))

\* C6: an attempt cut off by the timeout is handled exactly as an attempt
\* whose call raised: both get the failed-attempt handling above.
C6_TimeoutHandledLikeRaise ==
    [][\A w \in DOMAIN loc :
          /\ EndsAs(w, "timeout") => FailedAttemptHandled(w)
          /\ EndsAs(w, "raise") => FailedAttemptHandled(w)]_vars

\* C6 witness: an item was retried after a failure and then marked failed by a
\* timeout of its last attempt.
C6_TimedOutOnLastAttempt ==
    \E i \in Items :
        /\ Exhausted(i)
        /\ last_kind[i] = "timeout"
        /\ config.max_retries >= 2
        /\ Len(waits[i]) = config.max_retries - 1
        /\ agent_stats[AgentOf(BatchOf(i))].failed >= 1

\* C7: when process_items has returned, the processed and failed counts of
\* all lanes add up to the number of input items, and each lane's counts are
\* those of its own items: processed for the items that ended with a call
\* that came back, failed for the items that exhausted their retries.
C7_OneTerminalCountPerItem ==
    ppc = "returned" =>
        /\ SumTo([a \in Lanes |-> agent_stats[a].processed + agent_stats[a].failed],
                 total_agents - 1) = n_items
        /\ \A a \in Lanes :
              /\ agent_stats[a].processed =
                    Cardinality({i \in ItemsOfLane(a) : last_kind[i] \in {"ok", "none"}})
              /\ agent_stats[a].failed =
                    Cardinality({i \in ItemsOfLane(a) : last_kind[i] \in FailKinds})

\* C7 witness: a returned run in which one item succeeded only after a retry
\* and another item failed after several attempts.
C7_ReturnedAfterRetries ==
    /\ ppc = "returned"
    /\ \E i, j \in Items :
          /\ last_kind[i] = "ok" /\ attempts[i] >= 2
          /\ last_kind[j] \in FailKinds /\ attempts[j] >= 2

\* C8: when process_items is over, every lane's api_calls is the number of
\* attempts made for its items, and the api_calls of all lanes add up to the
\* number of attempts admitted through the gate.
C8_EveryAttemptCounted ==
    Completed =>
        /\ total_api_calls = admitted
        /\ \A a \in Lanes :
              agent_stats[a].api_calls = SumOver(attempts, ItemsOfLane(a))

\* C8 witness: a finished run with a raised, a timed-out and a retried
\* successful attempt.
C8_MixedOutcomesCounted ==
    /\ Completed
    /\ \E i, j, k \in Items :
          /\ last_kind[i] = "raise"
          /\ last_kind[j] = "timeout"
          /\ last_kind[k] = "ok" /\ attempts[k] >= 2

\* C9: the free slots of the gate plus the slots held by workers always make
\* up its capacity; so with no attempt in flight every slot is free.
C9_NoSlotLeak ==
    /\ sem_value + Cardinality(Holders) = Capacity
    /\ (Holders = {}) => sem_value = Capacity

\* C9 witness: the run is over after attempts that ended by success, by a
\* raised failure and by a timeout, and the gate is full again.
C9_AllSlotsBack ==
    /\ Completed
    /\ sem_value = Capacity
    /\ admitted >= 3
    /\ \E i, j, k \in Items :
          last_kind[i] = "raise" /\ last_kind[j] = "timeout" /\ last_kind[k] = "ok"

\* Failed attempts of item i that were followed by a wait: all failed attempts
\* but the one that used up max_retries.
FailedNotLast(i) ==
    IF attempts[i] = 0 THEN 0
    ELSE IF last_kind[i] \in {"ok", "none"} THEN attempts[i] - 1
    ELSE IF attempts[i] = config.max_retries THEN attempts[i] - 1
    ELSE attempts[i]

\* C10: the waits of an item are retry_delay*1, retry_delay*2, ... in this
\* order, one after each failed attempt except the final one.
C10_LinearBackoff ==
    \A i \in Items :
        /\ Len(waits[i]) = FailedNotLast(i)
        /\ \A j \in 1..Len(waits[i]) : waits[i][j] = config.retry_delay * j

\* C10 witness: an item failed three times with max_retries = 3 and waited
\* retry_delay, then 2 * retry_delay, and not after the third failure.
C10_TwoGrowingWaits ==
    \E i \in Items :
        /\ Exhausted(i)
        /\ config.max_retries = 3
        /\ waits[i] = <<config.retry_delay, 2 * config.retry_delay>>

\* ----------------------------------------------- claims on the timed runs
CeilDiv(a, b) == (a + b - 1) \div b

\* The concurrency width N: the capacity the gate is built with.
GateWidth == 2 * config.cpu_cores * config.agents_per_core

BatchCount == CeilDiv(n_items, config.items_per_batch)

LongestBatch ==
    IF n_items < config.items_per_batch THEN n_items ELSE config.items_per_batch

\* C11 as claimed: with calls of one fixed duration and no failure,
\* process_items is over after ceil(items / N) call-durations.
C11_FinishesAfterCeilItemsOverWidth ==
    Completed => clock = CeilDiv(n_items, GateWidth) * CallDuration

\* C11 amended: the items of one batch run one after another and only the
\* batches run side by side.  The run is over after ceil(items / N)
\* call-durations when every batch holds one item, after as many
\* call-durations as the longest batch has items when there are at most N
\* batches, and never earlier than either.
C11_FinishTimeFollowsBatches ==
    Completed =>
        /\ config.items_per_batch = 1 =>
              clock = CeilDiv(n_items, GateWidth) * CallDuration
        /\ BatchCount <= GateWidth => clock = LongestBatch * CallDuration
        /\ clock >= CeilDiv(n_items, GateWidth) * CallDuration
        /\ clock >= LongestBatch * CallDuration

\* C11 witness: with the default items_per_batch the items form one batch
\* and the run takes one call-duration per item.
C11_OneBatchRunsItemsInTurn ==
    /\ Completed
    /\ n_items = ScenarioItems
    /\ config.items_per_batch = DefaultItemsPerBatch
    /\ clock = n_items * CallDuration
    /\ clock > CeilDiv(n_items, GateWidth) * CallDuration

(***************************************************************************)
(* Part 2: chunking, src/src/synthesizer.py (chunk_hierarchical_results).   *)
(*                                                                         *)
(* A result tree is the dict level -> focus -> task -> text in insertion   *)
(* order: a sequence of [level, groups], groups a sequence of              *)
(* [focus, tasks], tasks a sequence of [key, len].  A text is modelled by  *)
(* its length, the only thing chunking reads; a level is named by its      *)
(* position, a focus by its position in its level and a task by its        *)
(* position in its focus group (the keys of a dict are distinct).  A chunk *)
(* is a tree of the same form.                                             *)
(***************************************************************************)

\* the lengths of the texts in the trees
TextLengths == {495, 1501, 9000}

\* the shapes of the trees: the number of focus groups of each level
TreeShapes == {<<>>, <<0>>, <<1>>, <<2>>, <<1, 1>>, <<2, 1>>}

RECURSIVE SumSeq(_)
SumSeq(s) == IF s = <<>> THEN 0 ELSE Head(s) + SumSeq(Tail(s))

\* The tree of a shape whose g-th focus group (in traversal order) holds
\* counts[g] tasks, the texts of the tasks having the lengths lens in order.
MakeTree(shape, counts, lens) ==
    [l \in 1..Len(shape) |->
        [level |-> l,
         groups |->
            [f \in 1..shape[l] |->
                LET g == SumSeq(SubSeq(shape, 1, l - 1)) + f
                    off == SumSeq(SubSeq(counts, 1, g - 1))
                IN  [focus |-> f,
                     tasks |-> [k \in 1..counts[g] |->
                                   [key |-> k, len |-> lens[off + k]]]]]]]

\* ---------------------------------------------- chunk_hierarchical_results
max_size == 8000

\* str(x)[:1500] + "..." if len(str(x)) > 1500 else str(x): the cut and the
\* length of the marker "..."
TruncateAt == 1500

MarkerLen == 3

truncated_len(n) == IF n > TruncateAt THEN TruncateAt + MarkerLen ELSE n

truncated_result(task) == [key |-> task.key, len |-> truncated_len(task.len)]

\* sum(len(str(task)) for task in focus_tasks.values())
RECURSIVE focus_size(_)
focus_size(focus_tasks) ==
    IF focus_tasks = <<>> THEN 0
    ELSE Head(focus_tasks).len + focus_size(Tail(focus_tasks))

\* {level_name: {focus: temp_tasks}}
sub_chunk(level_name, focus, temp_tasks) ==
    << [level |-> level_name,
        groups |-> << [focus |-> focus, tasks |-> temp_tasks] >>] >>

\* Faulty variant: the running chunk is not closed before an oversized group.
flush_only_when_group_fits(current_size, fsize, current_chunk) ==
    /\ current_size + fsize > max_size
    /\ fsize <= max_size
    /\ current_chunk # <<>>

\* if current_size + focus_size > max_size and current_chunk
flush_needed(current_size, fsize, current_chunk) ==
    current_size + fsize > max_size /\ current_chunk # <<>>

\* Faulty variant: the tasks left after the last sub-chunk are dropped.
split_finish_drops_tail(chs, level_name, focus, temp_tasks) == chs

\* if temp_tasks: chunks.append({level_name: {focus: temp_tasks}})
split_finish(chs, level_name, focus, temp_tasks) ==
    IF temp_tasks # <<>> THEN Append(chs, sub_chunk(level_name, focus, temp_tasks))
    ELSE chs

\* The split of an oversized focus group: the loop over its tasks, then the
\* closing append.
RECURSIVE split_tasks(_, _, _, _, _, _)
split_tasks(chs, level_name, focus, tasks, temp_tasks, temp_size) ==
    IF tasks = <<>> THEN split_finish(chs, level_name, focus, temp_tasks)
    ELSE LET task_size == Head(tasks).len
             close == temp_size + task_size > max_size /\ temp_tasks # <<>>
             chs1 == IF close
                     THEN Append(chs, sub_chunk(level_name, focus, temp_tasks))
                     ELSE chs
             tasks1 == IF close THEN <<>> ELSE temp_tasks
             size1 == IF close THEN 0 ELSE temp_size
             tr == truncated_result(Head(tasks))
         IN  split_tasks(chs1, level_name, focus, Tail(tasks),
                         Append(tasks1, tr), size1 + tr.len)

\* groups[focus] = tasks on a dict in insertion order
put_focus(groups, focus, tasks) ==
    IF \E j \in 1..Len(groups) : groups[j].focus = focus
    THEN [j \in 1..Len(groups) |->
             IF groups[j].focus = focus
             THEN [focus |-> focus, tasks |-> tasks] ELSE groups[j]]
    ELSE Append(groups, [focus |-> focus, tasks |-> tasks])

\* if level_name not in current_chunk: current_chunk[level_name] = {}
\* current_chunk[level_name][focus] = tasks
put_group(chunk, level_name, focus, tasks) ==
    IF \E i \in 1..Len(chunk) : chunk[i].level = level_name
    THEN [i \in 1..Len(chunk) |->
             IF chunk[i].level = level_name
             THEN [chunk[i] EXCEPT !.groups = put_focus(@, focus, tasks)]
             ELSE chunk[i]]
    ELSE Append(chunk, [level |-> level_name,
                        groups |-> put_focus(<<>>, focus, tasks)])

truncated_tasks(focus_tasks) ==
    [k \in 1..Len(focus_tasks) |-> truncated_result(focus_tasks[k])]

\* One pass of the inner loop, for the focus group (level_name, focus); st is
\* the loop state [chunks, current_chunk, current_size].
focus_step(st, level_name, focus, focus_tasks) ==
    LET fsize == focus_size(focus_tasks)
        st1 == IF flush_needed(st.current_size, fsize, st.current_chunk)
               THEN [chunks |-> Append(st.chunks, st.current_chunk),
                     current_chunk |-> <<>>,
                     current_size |-> 0]
               ELSE st
    IN  IF fsize > max_size
        THEN [st1 EXCEPT !.chunks =
                 split_tasks(@, level_name, focus, focus_tasks, <<>>, 0)]
        ELSE [st1 EXCEPT
                 !.current_chunk =
                     put_group(@, level_name, focus, truncated_tasks(focus_tasks)),
                 !.current_size = @ + fsize]

\* The focus groups of a tree in the order the two loops visit them.
RECURSIVE GroupsOf(_)
GroupsOf(tree) ==
    IF tree = <<>> THEN <<>>
    ELSE [j \in 1..Len(Head(tree).groups) |->
             [level |-> Head(tree).level,
              focus |-> Head(tree).groups[j].focus,
              tasks |-> Head(tree).groups[j].tasks]]
         \o GroupsOf(Tail(tree))

RECURSIVE chunk_loop(_, _)
chunk_loop(st, gs) ==
    IF gs = <<>> THEN st
    ELSE chunk_loop(focus_step(st, Head(gs).level, Head(gs).focus, Head(gs).tasks),
                    Tail(gs))

chunk_hierarchical_results(tree) ==
    LET st == chunk_loop([chunks |-> <<>>, current_chunk |-> <<>>,
                          current_size |-> 0], GroupsOf(tree))
    IN  IF st.current_chunk # <<>> THEN Append(st.chunks, st.current_chunk)
        ELSE st.chunks

\* ------------------------------------------------ the specification of Part 2
\* The Dispatcher, unused.
DispatcherIdle ==
    /\ config = [cpu_cores |-> 1, agents_per_core |-> 1, items_per_batch |-> 1,
                 max_retries |-> DefaultMaxRetries, retry_delay |-> RetryDelay]
    /\ n_items = 0
    /\ always_fail = FALSE
    /\ ppc = "idle"
    /\ returned = <<>>
    /\ agent_stats = <<>>
    /\ sem_value = 0
    /\ sem_waiters = <<>>
    /\ loc = <<>>
    /\ attempts = <<>>
    /\ last_kind = <<>>
    /\ waits = <<>>
    /\ admitted = 0

\* The result trees of the bounded shapes, sizes and text lengths.
IsTree(tree) ==
    \E shape \in TreeShapes :
        \E counts \in [1..SumSeq(shape) -> 0..MaxEntries] :
            /\ SumSeq(counts) <= MaxEntries
            /\ \E lens \in [1..SumSeq(counts) -> TextLengths] :
                   tree = MakeTree(shape, counts, lens)

ChunkInit ==
    /\ DispatcherIdle
    /\ TimeIdle
    /\ dd_config = [kind |-> "none", groups |-> <<>>]
    /\ PipeIdle
    /\ FrontUnused
    /\ IsTree(results)
    /\ chunks = <<>>
    /\ stage = "pending"

ChunkResults ==
    /\ stage = "pending"
    /\ chunks' = chunk_hierarchical_results(results)
    /\ stage' = "chunked"
    /\ UNCHANGED results

ChunkNext == ChunkResults /\ UNCHANGED <<dvars, tvars, pvars, fvars, mvars>>

ChunkSpec == ChunkInit /\ [][ChunkNext]_vars

\* ------------------------------------------------------- claims on chunking
\* The (level, focus, task key) entries of a tree or chunk, in stored order.
RECURSIVE TasksOf(_)
TasksOf(gs) ==
    IF gs = <<>> THEN <<>>
    ELSE [k \in 1..Len(Head(gs).tasks) |->
             <<Head(gs).level, Head(gs).focus, Head(gs).tasks[k].key>>]
         \o TasksOf(Tail(gs))

EntriesOf(tree) == TasksOf(GroupsOf(tree))

\* The entries of the chunks read in list order.
RECURSIVE ChunkEntries(_)
ChunkEntries(chs) ==
    IF chs = <<>> THEN <<>> ELSE EntriesOf(Head(chs)) \o ChunkEntries(Tail(chs))

Oversized(g) == focus_size(g.tasks) > max_size

\* C12: chunking is lossless: every (level, focus, task key) entry of the
\* input is stored at exactly one place of exactly one chunk, under its
\* level and focus, and the chunks store nothing else.
C12_ChunkingLossless ==
    stage = "chunked" =>
        LET stored == ChunkEntries(chunks)
            given == EntriesOf(results)
        IN  /\ \A e \in SeqRange(given) :
                   Cardinality({i \in 1..Len(stored) : stored[i] = e}) = 1
            /\ SeqRange(stored) \subseteq SeqRange(given)

\* C12 witness: a tree with an oversized group split into several sub-chunks
\* and a group kept on the running chunk.
C12_BothPathsTaken ==
    /\ stage = "chunked"
    /\ \E g \in SeqRange(GroupsOf(results)) :
           /\ Oversized(g)
           /\ Cardinality({c \in 1..Len(chunks) :
                  \E e \in SeqRange(EntriesOf(chunks[c])) :
                      e[1] = g.level /\ e[2] = g.focus}) >= 2
    /\ \E g \in SeqRange(GroupsOf(results)) : ~Oversized(g) /\ g.tasks # <<>>

\* C13: chunking is order-preserving: the chunks in list order, each read in
\* stored order, give the entries of the input in traversal order.
C13_ChunkingKeepsOrder ==
    stage = "chunked" => ChunkEntries(chunks) = EntriesOf(results)

\* C13 witness: an oversized group arrives while the running chunk holds the
\* entries of the group before it.
C13_OversizedAfterRunning ==
    /\ stage = "chunked"
    /\ \E i \in 1..Len(GroupsOf(results)) - 1 :
           /\ GroupsOf(results)[i].tasks # <<>>
           /\ ~Oversized(GroupsOf(results)[i])
           /\ Oversized(GroupsOf(results)[i + 1])
    /\ Len(chunks) >= 2

\* The size of a chunk: the sum of the lengths of the texts it stores.
RECURSIVE StoredSize(_)
StoredSize(gs) ==
    IF gs = <<>> THEN 0 ELSE focus_size(Head(gs).tasks) + StoredSize(Tail(gs))

\* C14: every chunk is within budget: the lengths of the texts it stores
\* (truncated, marker included) sum to at most max_size.
C14_ChunksWithinBudget ==
    stage = "chunked" =>
        \A c \in 1..Len(chunks) : StoredSize(GroupsOf(chunks[c])) <= max_size

\* C15: no chunk is emitted empty: every chunk stores at least one entry.
C15_NoEmptyChunk ==
    stage = "chunked" =>
        \A c \in 1..Len(chunks) : EntriesOf(chunks[c]) # <<>>

\* The chunks that store an entry of the focus group g.
ChunksHolding(g) ==
    {c \in 1..Len(chunks) :
        \E e \in SeqRange(EntriesOf(chunks[c])) :
            e[1] = g.level /\ e[2] = g.focus}

\* The size of a focus group after truncation of its texts to the cap.
truncated_size(g) == focus_size(truncated_tasks(g.tasks))

\* C30: the size of a focus group is the sum of the lengths of its texts
\* after truncation: a group takes the oversized split path if and only if
\* its truncated size exceeds max_size, so a group whose truncated size is
\* within max_size is never split over several chunks.
C30_GroupSizeIsTruncatedSize ==
    stage = "chunked" =>
        \A g \in SeqRange(GroupsOf(results)) :
            /\ Oversized(g) <=> truncated_size(g) > max_size
            /\ truncated_size(g) <= max_size => Cardinality(ChunksHolding(g)) <= 1

(***************************************************************************)
(* Part 3: the synthesis pipeline, src/src/synthesizer.py (analyze_results, *)
(* summarize_results, deep_dive_analysis, deploy_deep_dive_agents).         *)
(*                                                                         *)
(* The pipeline is one coroutine; it suspends only in await make_api_call. *)
(* One action is the return of the call in flight together with the code   *)
(* that runs up to the next call or to the return of analyze_results.      *)
(* make_api_call yields a text or None; a reply that is an empty text is   *)
(* not drawn, every test of a reply ("if response") treats it as None.     *)
(* calls is the history of the calls: [kind, g, a, b, prompt, done,         *)
(* response]; a names the chunk of a chunk call; g, a and b name the       *)
(* deep-dive group, the agent type in it and the agent of a deep-dive call.*)
(***************************************************************************)

\* bool(x) of an Optional[str]
truthy(v) == ~v.is_none /\ v.parts # <<>>

\* sep.join(texts)
RECURSIVE join(_, _)
join(sep, texts) ==
    IF texts = <<>> THEN <<>>
    ELSE IF Len(texts) = 1 THEN texts[1].parts
    ELSE texts[1].parts \o <<sep>> \o join(sep, Tail(texts))

\* The text a successful call yields: one part, naming the call.
Reply(kind, a, b) == Text(<< <<kind, a, b>> >>)

\* ------------------------------------------------------ the texts composed
RECURSIVE format_groups(_)
format_groups(gs) ==
    IF gs = <<>> THEN <<>>
    ELSE << <<"Focus Area", Head(gs).level, Head(gs).focus>> >>
         \o [k \in 1..Len(Head(gs).tasks) |->
                <<"task", Head(gs).tasks[k].key, Head(gs).tasks[k].len>>]
         \o format_groups(Tail(gs))

\* The text of a chunk: a "Level" header for each level, then its groups.
RECURSIVE format_chunk_text(_)
format_chunk_text(chunk) ==
    IF chunk = <<>> THEN <<>>
    ELSE << <<"Level", Head(chunk).level, 0>> >>
         \o format_groups(GroupsOf(<<Head(chunk)>>))
         \o format_chunk_text(Tail(chunk))

create_chunk_prompt(chunk_text) ==
    Text(<< <<"Summarize this chunk", 0, 0>> >> \o chunk_text)

create_final_prompt(summaries) ==
    Text(<< <<"Create a final synthesis", 0, 0>> >>
         \o join(<<"---", 0, 0>>, summaries))

format_final_summary(summary) ==
    Text(<< <<"=== Final Analysis ===", 0, 0>> >> \o summary.parts
         \o << <<"End of Analysis", 0, 0>> >>)

deep_dive_prompt(initial_summary) ==
    Text(<< <<"identify 5 key areas", 0, 0>> >> \o initial_summary.parts)

analysis_prompt(t, key_areas) ==
    Text(<< <<"Analyze these key areas", t, 0>> >> \o key_areas.parts)

synthesis_prompt(t, agent_findings) ==
    Text(<< <<"Synthesize these findings", t, 0>> >>
         \o join(<<"---", 0, 0>>, agent_findings))

RECURSIVE findings_text(_)
findings_text(fs) ==
    IF fs = <<>> THEN <<>>
    ELSE << <<"Insights", Head(fs).agent_type, 0>> >> \o Head(fs).synthesis.parts
         \o findings_text(Tail(fs))

final_synthesis(key_areas, deep_dive_findings) ==
    Text(<< <<"=== Deep Dive Analysis ===", 0, 0>> >> \o key_areas.parts
         \o findings_text(deep_dive_findings)
         \o << <<"End of Deep Dive", 0, 0>> >>)

\* the placeholders of analyze_results
SummaryFailed == Text(<< <<"Summary generation failed", 0, 0>> >>)

NotAvailableSummaryFailure ==
    Text(<< <<"Analysis not available due to summary failure", 0, 0>> >>)

DeepDiveNotAvailable == Text(<< <<"Deep dive analysis not available", 0, 0>> >>)

\* ------------------------------------------------------- the mutable world
SynthWorld ==
    [stage |-> stage, chunks |-> chunks, calls |-> calls, result |-> result,
     chunk_summaries |-> mem.chunk_summaries, idx |-> mem.idx,
     initial_summary |-> mem.initial_summary, key_areas |-> mem.key_areas,
     type_idx |-> mem.type_idx, agent_idx |-> mem.agent_idx,
     agent_findings |-> mem.agent_findings,
     deep_dive_findings |-> mem.deep_dive_findings]

\* The world s becomes the state (v is the value of s, computed once).
PutSynth(s) ==
    \E v \in {s} :
        /\ stage' = v.stage
        /\ chunks' = v.chunks
        /\ calls' = v.calls
        /\ result' = v.result
        /\ mem' = [chunk_summaries |-> v.chunk_summaries, idx |-> v.idx,
                   initial_summary |-> v.initial_summary, key_areas |-> v.key_areas,
                   type_idx |-> v.type_idx, agent_idx |-> v.agent_idx,
                   agent_findings |-> v.agent_findings,
                   deep_dive_findings |-> v.deep_dive_findings]

\* await make_api_call(...): the call is issued and the coroutine suspends.
issue(s, st, kind, g, a, b, prompt) ==
    [s EXCEPT !.stage = st,
              !.calls = Append(@, [kind |-> kind, g |-> g, a |-> a, b |-> b,
                                   prompt |-> prompt, done |-> FALSE,
                                   response |-> NoneText])]

\* The call in flight returns r.
answer(s, r) ==
    [s EXCEPT !.calls[Len(s.calls)] = [@ EXCEPT !.done = TRUE, !.response = r]]

\* ----------------------------------------------------------- analyze_results
analyze_return(s, initial, deep) ==
    [s EXCEPT !.stage = "done",
              !.result = [initial_summary |-> initial, deep_dive_analysis |-> deep]]

\* summarize_results returned None: if not initial_summary
summary_failed(s) == analyze_return(s, SummaryFailed, NotAvailableSummaryFailure)

\* Faulty variant: the outcome of the deep dive is returned as it is.
deep_dive_returns_raw(s, deep_dive) ==
    analyze_return(s, s.initial_summary, deep_dive)

\* Faulty variant: a failed deep dive fails the pipeline.
deep_dive_failure_fails_pipeline(s, deep_dive) ==
    IF truthy(deep_dive) THEN analyze_return(s, s.initial_summary, deep_dive)
    ELSE analyze_return(s, SummaryFailed, NotAvailableSummaryFailure)

\* deep_dive_analysis returned deep_dive (None when it raised)
deep_dive_returns(s, deep_dive) ==
    analyze_return(s, s.initial_summary,
                   IF truthy(deep_dive) THEN deep_dive ELSE DeepDiveNotAvailable)

\* ------------------------------------------------------- deep_dive_analysis
\* after deploy_deep_dive_agents: if deep_dive_findings ... return None
deep_dive_finish(s) ==
    deep_dive_returns(s, IF s.deep_dive_findings # <<>>
                         THEN final_synthesis(s.key_areas, s.deep_dive_findings)
                         ELSE NoneText)

\* --------------------------------------------------- deploy_deep_dive_agents
\* config.deep_dive_agents[0].agent_types: the first group, group 1 of the
\* history of the calls
agent_types == dd_config.groups[1]

\* The loops over the agent types and over range(agent_type.num_agents), from
\* type t and agent i on, up to the next call.
RECURSIVE next_type(_, _)
RECURSIVE next_agent(_, _)
next_type(s, t) ==
    IF t > Len(agent_types) THEN deep_dive_finish(s)
    ELSE next_agent([s EXCEPT !.type_idx = t, !.agent_findings = <<>>], 1)

next_agent(s, i) ==
    IF i <= agent_types[s.type_idx].num_agents
    THEN issue([s EXCEPT !.agent_idx = i], "agents", "agent", 1, s.type_idx, i,
               analysis_prompt(s.type_idx, s.key_areas))
    ELSE IF s.agent_findings # <<>>
    THEN issue(s, "type_synthesis", "type_synthesis", 1, s.type_idx, 0,
               synthesis_prompt(s.type_idx, s.agent_findings))
    ELSE next_type(s, s.type_idx + 1)

deploy_deep_dive_agents(s) ==
    IF dd_config.kind = "dict"
    THEN \* config.deep_dive_agents raises AttributeError, caught by
         \* deep_dive_analysis, which returns None
         deep_dive_returns(s, NoneText)
    ELSE IF dd_config.kind = "none" \/ dd_config.groups = <<>>
    THEN deep_dive_finish([s EXCEPT !.deep_dive_findings = <<>>])
    ELSE next_type([s EXCEPT !.deep_dive_findings = <<>>], 1)

agent_call_returns(s, r) ==
    LET s1 == answer(s, r)
        s2 == IF truthy(r) THEN [s1 EXCEPT !.agent_findings = Append(@, r)] ELSE s1
    IN  next_agent(s2, s.agent_idx + 1)

type_synthesis_returns(s, r) ==
    LET s1 == answer(s, r)
        s2 == IF truthy(r)
              THEN [s1 EXCEPT !.deep_dive_findings =
                       Append(@, [agent_type |-> s.type_idx, synthesis |-> r])]
              ELSE s1
    IN  next_type(s2, s.type_idx + 1)

key_areas_returns(s, r) ==
    LET s1 == answer(s, r)
    IN  IF ~truthy(r) THEN deep_dive_returns(s1, NoneText)
        ELSE deploy_deep_dive_agents([s1 EXCEPT !.key_areas = r])

\* -------------------------------------------------------- summarize_results
\* Faulty variant: the final reduction is called whatever the summaries.
after_chunks_always_reduces(s) ==
    issue(s, "reducing", "final", 0, 0, 0, create_final_prompt(s.chunk_summaries))

\* Stage 3: if not chunk_summaries: return None; else the final call
after_chunks(s) ==
    IF s.chunk_summaries = <<>> THEN summary_failed(s)
    ELSE issue(s, "reducing", "final", 0, 0, 0, create_final_prompt(s.chunk_summaries))

\* Stage 2, the loop over the chunks from chunk i on, up to the next call (a
\* chunk whose text is empty is skipped).
RECURSIVE next_chunk(_, _)
next_chunk(s, i) ==
    IF i > Len(s.chunks) THEN after_chunks(s)
    ELSE IF format_chunk_text(s.chunks[i]) = <<>> THEN next_chunk(s, i + 1)
    ELSE issue([s EXCEPT !.idx = i], "summarizing", "chunk", 0, i, 0,
               create_chunk_prompt(format_chunk_text(s.chunks[i])))

\* analyze_results calls summarize_results: Stage 1 and the first call.
summarize_start(s) ==
    IF results = <<>> THEN summary_failed(s)
    ELSE LET s1 == [s EXCEPT !.chunks = chunk_hierarchical_results(results),
                             !.chunk_summaries = <<>>]
         IN  IF Len(s1.chunks) = 0 THEN summary_failed(s1)
             ELSE next_chunk(s1, 1)

chunk_call_returns(s, r) ==
    LET s1 == answer(s, r)
        s2 == IF truthy(r) THEN [s1 EXCEPT !.chunk_summaries = Append(@, r)] ELSE s1
    IN  next_chunk(s2, s.idx + 1)

\* Faulty variant: the deep dive starts whatever the final call yielded.
final_call_returns_ignores_failure(s, r) ==
    LET s1 == [answer(s, r) EXCEPT !.initial_summary = format_final_summary(r)]
    IN  issue(s1, "key_areas", "key_areas", 0, 0, 0,
              deep_dive_prompt(s1.initial_summary))

\* The final call returns; on success analyze_results goes on to
\* deep_dive_analysis and its key-area call.
final_call_returns(s, r) ==
    IF truthy(r)
    THEN LET s1 == [answer(s, r) EXCEPT !.initial_summary = format_final_summary(r)]
         IN  issue(s1, "key_areas", "key_areas", 0, 0, 0,
                   deep_dive_prompt(s1.initial_summary))
    ELSE summary_failed(answer(s, r))

\* ------------------------------------------------ the specification of Part 3
\* A text longer than the chunk budget: alone it fills a chunk.
LongText == CHOOSE n \in TextLengths : n > max_size

\* The result trees of the pipeline runs: no level, a level without focus
\* group, and one focus group of k long texts (k chunks).
PipeTrees ==
    {MakeTree(<<>>, <<>>, <<>>), MakeTree(<<0>>, <<>>, <<>>)}
    \cup {MakeTree(<<1>>, <<k>>, [i \in 1..k |-> LongText]) : k \in 1..MaxChunks}

\* config.deep_dive_agents as a list: groups[g][t] is the t-th agent type of
\* the g-th group, tcounts[g] the number of types of group g and nums the
\* num_agents of the types in order.
MakeGroups(tcounts, nums) ==
    [g \in 1..Len(tcounts) |->
        [t \in 1..tcounts[g] |->
            [num_agents |-> nums[SumSeq(SubSeq(tcounts, 1, g - 1)) + t]]]]

\* The config argument: a plain dict (no attribute deep_dive_agents), a Config
\* without deep-dive agents, or a Config with a list of groups.
IsConfig(c) ==
    \/ c = [kind |-> "dict", groups |-> <<>>]
    \/ c = [kind |-> "none", groups |-> <<>>]
    \/ \E ng \in 0..MaxGroups :
         \E tcounts \in [1..ng -> 0..MaxTypes] :
            /\ SumSeq(tcounts) <= MaxTypes
            /\ \E nums \in [1..SumSeq(tcounts) -> 1..MaxAgents] :
                  /\ SumSeq(nums) <= MaxAgents
                  /\ c = [kind |-> "list", groups |-> MakeGroups(tcounts, nums)]

PipeInit ==
    /\ DispatcherIdle
    /\ TimeIdle
    /\ results \in PipeTrees
    /\ chunks = <<>>
    /\ stage = "pending"
    /\ IsConfig(dd_config)
    /\ PipeIdle
    /\ FrontUnused

AnalyzeResults ==
    /\ stage = "pending"
    /\ PutSynth(summarize_start(SynthWorld))

ChunkCallReturns ==
    /\ stage = "summarizing"
    /\ \E r \in {NoneText, Reply("summary", mem.idx, 0)} :
           PutSynth(chunk_call_returns(SynthWorld, r))

FinalCallReturns ==
    /\ stage = "reducing"
    /\ \E r \in {NoneText, Reply("synthesis", 0, 0)} :
           PutSynth(final_call_returns(SynthWorld, r))

KeyAreasReturns ==
    /\ stage = "key_areas"
    /\ \E r \in {NoneText, Reply("key areas", 0, 0)} :
           PutSynth(key_areas_returns(SynthWorld, r))

AgentCallReturns ==
    /\ stage = "agents"
    /\ \E r \in {NoneText, Reply("finding", mem.type_idx, mem.agent_idx)} :
           PutSynth(agent_call_returns(SynthWorld, r))

TypeSynthesisReturns ==
    /\ stage = "type_synthesis"
    /\ \E r \in {NoneText, Reply("type synthesis", mem.type_idx, 0)} :
           PutSynth(type_synthesis_returns(SynthWorld, r))

PipeNext ==
    \/ AnalyzeResults /\ UNCHANGED <<dvars, tvars, results, dd_config, fvars, mvars>>
    \/ ChunkCallReturns /\ UNCHANGED <<dvars, tvars, results, dd_config, fvars, mvars>>
    \/ FinalCallReturns /\ UNCHANGED <<dvars, tvars, results, dd_config, fvars, mvars>>
    \/ KeyAreasReturns /\ UNCHANGED <<dvars, tvars, results, dd_config, fvars, mvars>>
    \/ AgentCallReturns /\ UNCHANGED <<dvars, tvars, results, dd_config, fvars, mvars>>
    \/ TypeSynthesisReturns /\ UNCHANGED <<dvars, tvars, results, dd_config, fvars, mvars>>

PipeSpec == PipeInit /\ [][PipeNext]_vars

\* Every remote call returns (make_api_call ends with a value, an error or
\* the timeout of the HTTP client) and the coroutine is then resumed.
FairPipeSpec == PipeSpec /\ WF_vars(PipeNext)

\* ------------------------------------------------------ claims on the pipeline
\* The calls of a kind, by their position in the history.
CallsOfKind(kind) == {n \in 1..Len(calls) : calls[n].kind = kind}

Succeeded(n) == calls[n].done /\ truthy(calls[n].response)

\* The chunks whose summarization call succeeded.
SummarizedChunks ==
    {i \in 1..Len(chunks) :
        \E n \in CallsOfKind("chunk") : calls[n].a = i /\ Succeeded(n)}

RECURSIVE Ascending(_)
Ascending(S) ==
    IF S = {} THEN <<>>
    ELSE LET m == CHOOSE x \in S : \A y \in S : x <= y
         IN  <<m>> \o Ascending(S \ {m})

\* The summary the call for chunk i returned.
SummaryOfChunk(i) ==
    calls[CHOOSE n \in CallsOfKind("chunk") : calls[n].a = i].response

\* A prompt without its heading and its separators.
RECURSIVE Payload(_)
Payload(parts) ==
    IF parts = <<>> THEN <<>>
    ELSE (IF Head(parts)[1] \in {"Create a final synthesis", "---"}
          THEN <<>> ELSE <<Head(parts)>>) \o Payload(Tail(parts))

RECURSIVE PartsOf(_)
PartsOf(texts) ==
    IF texts = <<>> THEN <<>> ELSE Head(texts).parts \o PartsOf(Tail(texts))

ChunkStageOver == stage \notin {"pending", "summarizing"}

\* C16: the final-reduction call is issued if and only if a chunk
\* summarization call succeeded, and then once, after all chunk calls, with a
\* prompt made of exactly the successful summaries in chunk order; when no
\* chunk call succeeds there is no final call and the run returns the
\* failure marker.
C16_FinalCallIffSomeSummary ==
    /\ Cardinality(CallsOfKind("final")) <= 1
    /\ \A n \in CallsOfKind("final") :
           /\ SummarizedChunks # {}
           /\ \A m \in CallsOfKind("chunk") : m < n /\ calls[m].done
           /\ Payload(calls[n].prompt.parts) =
                  PartsOf([k \in 1..Cardinality(SummarizedChunks) |->
                              SummaryOfChunk(Ascending(SummarizedChunks)[k])])
    /\ ChunkStageOver => (CallsOfKind("final") # {} <=> SummarizedChunks # {})
    /\ stage = "done" /\ SummarizedChunks = {} =>
           result.initial_summary = SummaryFailed

\* C16 witness: of three chunks the second fails, and the final call carries
\* the summaries of the first and the third.
C16_FailedChunkDropped ==
    /\ Len(chunks) = 3
    /\ SummarizedChunks = {1, 3}
    /\ \E n \in CallsOfKind("final") :
           Payload(calls[n].prompt.parts) = << <<"summary", 1, 0>>, <<"summary", 3, 0>> >>

\* The text the final reduction produced, as summarize_results returns it.
ProducedSummary ==
    format_final_summary(calls[CHOOSE n \in CallsOfKind("final") : TRUE].response)

SummaryProduced == \E n \in CallsOfKind("final") : Succeeded(n)

\* The text deep_dive_analysis produces from the successful reductions.
ProducedDeepDive ==
    final_synthesis(
        calls[CHOOSE n \in CallsOfKind("key_areas") : TRUE].response,
        [k \in 1..Len(mem.deep_dive_findings) |-> mem.deep_dive_findings[k]])

DeepDiveProduced == \E n \in CallsOfKind("type_synthesis") : Succeeded(n)

\* Both fields of the result are non-empty text: the produced text or its
\* placeholder.
ResultWellFormed ==
    /\ truthy(result.initial_summary)
    /\ truthy(result.deep_dive_analysis)
    /\ IF SummaryProduced
       THEN /\ result.initial_summary = ProducedSummary
            /\ IF DeepDiveProduced
               THEN result.deep_dive_analysis = ProducedDeepDive
               ELSE result.deep_dive_analysis = DeepDiveNotAvailable
       ELSE /\ result.initial_summary = SummaryFailed
            /\ result.deep_dive_analysis = NotAvailableSummaryFailure

\* C17: whatever the remote calls yield, analyze_results returns, and what it
\* returns has both fields non-empty, each the produced text or a placeholder.
C17_AlwaysReturnsBothFields ==
    /\ <>(stage = "done")
    /\ [](stage = "done" => ResultWellFormed)

\* C17 witness: a run with failed and successful chunk calls that returns a
\* produced summary and a produced deep dive.
C17_ReturnedAfterMixedCalls ==
    /\ stage = "done"
    /\ \E n \in CallsOfKind("chunk") : ~Succeeded(n)
    /\ \E n \in CallsOfKind("agent") : ~Succeeded(n)
    /\ result.initial_summary = ProducedSummary
    /\ DeepDiveProduced
    /\ result.deep_dive_analysis = ProducedDeepDive

\* The ways the deep dive fails.
KeyAreasFailed == \E n \in CallsOfKind("key_areas") : calls[n].done /\ ~Succeeded(n)

EveryAgentCallFailed ==
    /\ CallsOfKind("agent") # {}
    /\ \A n \in CallsOfKind("agent") : calls[n].done /\ ~Succeeded(n)

EveryTypeSynthesisFailed ==
    /\ CallsOfKind("type_synthesis") # {}
    /\ \A n \in CallsOfKind("type_synthesis") : calls[n].done /\ ~Succeeded(n)

\* deploy_deep_dive_agents raised (the config has no deep_dive_agents).
DeployRaised ==
    /\ dd_config.kind = "dict"
    /\ \E n \in CallsOfKind("key_areas") : Succeeded(n)

DeepDiveFailed ==
    KeyAreasFailed \/ EveryAgentCallFailed \/ EveryTypeSynthesisFailed \/ DeployRaised

\* C18: the deep dive is best-effort: when the initial summary was produced
\* and the deep dive fails, the result holds the summary as produced and the
\* placeholder for the deep dive.
C18_DeepDiveBestEffort ==
    stage = "done" /\ SummaryProduced /\ DeepDiveFailed =>
        /\ result.initial_summary = ProducedSummary
        /\ result.deep_dive_analysis = DeepDiveNotAvailable

\* C18 witness: the summary was produced, the key areas were found and every
\* agent call failed.
C18_AgentsAllFailed ==
    /\ stage = "done"
    /\ SummaryProduced
    /\ EveryAgentCallFailed
    /\ Cardinality(CallsOfKind("agent")) >= 2
    /\ result.initial_summary = ProducedSummary
    /\ result.deep_dive_analysis = DeepDiveNotAvailable

\* The stage a call belongs to: chunk summarization, final reduction, deep dive.
StageRank(kind) ==
    CASE kind = "chunk" -> 1
      [] kind = "final" -> 2
      [] OTHER -> 3

\* C19: the stages occur in order: chunk calls only after chunking, the
\* final call only after every chunk call has returned, deep-dive calls only
\* after a final call that succeeded, and no call while another is in flight.
C19_StagesInOrder ==
    /\ \A n \in 1..Len(calls) - 1 : calls[n].done
    /\ \A m, n \in 1..Len(calls) :
           m < n => StageRank(calls[m].kind) <= StageRank(calls[n].kind)
    /\ CallsOfKind("chunk") # {} =>
           /\ chunks = chunk_hierarchical_results(results)
           /\ \A n \in CallsOfKind("chunk") : calls[n].a \in 1..Len(chunks)
    /\ \A n \in CallsOfKind("final") :
           \A i \in 1..Len(chunks) :
               \E m \in CallsOfKind("chunk") :
                   m < n /\ calls[m].a = i /\ calls[m].done
    /\ \A n \in 1..Len(calls) :
           StageRank(calls[n].kind) = 3 =>
               \E m \in CallsOfKind("final") : m < n /\ Succeeded(m)

\* C19 witness: a run through all the stages.
C19_AllStagesRun ==
    /\ stage = "done"
    /\ Len(chunks) >= 2
    /\ \A k \in {"chunk", "final", "key_areas", "agent", "type_synthesis"} :
           CallsOfKind(k) # {}

\* The calls for the t-th agent type of the g-th deep-dive group.
CallsForType(kind, g, t) ==
    {n \in CallsOfKind(kind) : calls[n].g = g /\ calls[n].a = t}

\* C20: once the key areas are found, every configured agent type of every
\* configured group gets exactly num_agents agent calls and then exactly one
\* reduction call.
C20_EveryTypeDispatched ==
    (/\ stage = "done"
     /\ dd_config.kind = "list"
     /\ \E n \in CallsOfKind("key_areas") : Succeeded(n)) =>
        \A g \in 1..Len(dd_config.groups) :
            \A t \in 1..Len(dd_config.groups[g]) :
                /\ Cardinality(CallsForType("agent", g, t)) =
                       dd_config.groups[g][t].num_agents
                /\ Cardinality(CallsForType("type_synthesis", g, t)) = 1
                /\ \A m \in CallsForType("agent", g, t) :
                       \A n \in CallsForType("type_synthesis", g, t) : m < n

(***************************************************************************)
(* Part 4: the front end, src/src/utils/tasks.py, src/src/agents.py and    *)
(* src/src/main.py (generate_hierarchical_tasks, agent_factory,            *)
(* execute_tasks, main).                                                   *)
(*                                                                         *)
(* A name is a sequence of characters.  A dict is the sequence of its      *)
(* <<key, value>> pairs in insertion order.  A call that can raise yields  *)
(* [exc, value], exc "none" when it returned.  The Config is the object    *)
(* load_config returns, or an object with the same fields and an           *)
(* analysis_agents list: the schema declares no analysis_agents field and  *)
(* forbids extra ones, so a validated Config has none                      *)
(* (analysis_agents.kind = "absent"), and its deep_dive_agents is None     *)
(* (kind = "none") unless the file gives a list.                           *)
(***************************************************************************)
MaxNumAgents == 3

LevelNames == {<<"l">>, <<"L">>, <<"l", "_", "x">>}
FocusNames == {<<"x">>, <<"X">>, <<"x", " ", "x">>, <<"x", "_", "x">>}

\* ------------------------------------------------------------ dicts, str
\* d[k] = v: a key already present keeps its place and takes the new value
dict_set(d, k, v) ==
    IF \E i \in 1..Len(d) : d[i][1] = k
    THEN [i \in 1..Len(d) |-> IF d[i][1] = k THEN <<k, v>> ELSE d[i]]
    ELSE Append(d, <<k, v>>)

\* d.update(e)
RECURSIVE dict_update(_, _)
dict_update(d, e) ==
    IF e = <<>> THEN d
    ELSE dict_update(dict_set(d, Head(e)[1], Head(e)[2]), Tail(e))

\* str.lower(), character by character
lower(s) ==
    [i \in 1..Len(s) |->
        IF s[i] = "L" THEN "l" ELSE IF s[i] = "X" THEN "x" ELSE s[i]]

\* str.replace(" ", "_")
replace_spaces(s) == [i \in 1..Len(s) |-> IF s[i] = " " THEN "_" ELSE s[i]]

\* f"{level.level_name}_{focus}_{j+1}".lower().replace(" ", "_"), n = j + 1
task_id(level_name, focus, n) ==
    replace_spaces(lower(level_name \o <<"_">> \o focus \o <<"_", ToString(n)>>))

\* ---------------------------------------------- generate_hierarchical_tasks
\* level.num_agents // len(level.focuses) raises when focuses is empty
level_raises(level) == Len(level.focuses) = 0

\* base + (1 if i < remaining else 0), i the index (from 0) of the focus
share(level, i) ==
    (level.num_agents \div Len(level.focuses))
    + (IF i < level.num_agents % Len(level.focuses) THEN 1 ELSE 0)

\* The text of a task: it names the focus and the level.
task_description(level, focus) == <<"Focus", focus, "within", level.level_name>>

\* for j in range(n): focus_tasks[task_id] = task_description
RECURSIVE focus_tasks_of(_, _, _)
focus_tasks_of(level, focus, n) ==
    IF n = 0 THEN <<>>
    ELSE dict_set(focus_tasks_of(level, focus, n - 1),
                  task_id(level.level_name, focus, n),
                  task_description(level, focus))

\* for i, focus in enumerate(level.focuses): level_tasks[focus] = focus_tasks
\* (the first k focuses done)
RECURSIVE level_tasks_of(_, _)
level_tasks_of(level, k) ==
    IF k = 0 THEN <<>>
    ELSE dict_set(level_tasks_of(level, k - 1), level.focuses[k],
                  focus_tasks_of(level, level.focuses[k], share(level, k - 1)))

\* Faulty variant: a level without focuses is passed over.
RECURSIVE tasks_of_levels_skips_empty_levels(_, _)
tasks_of_levels_skips_empty_levels(levels, k) ==
    IF k = 0 THEN [exc |-> "none", value |-> <<>>]
    ELSE LET before == tasks_of_levels_skips_empty_levels(levels, k - 1)
         IN  IF Len(levels[k].focuses) = 0 THEN before
             ELSE [exc |-> "none",
                   value |-> dict_set(before.value, levels[k].level_name,
                                 level_tasks_of(levels[k], Len(levels[k].focuses)))]

\* for level in config.focus_levels: tasks[level.level_name] = level_tasks
\* (the first k levels done)
RECURSIVE tasks_of_levels(_, _)
tasks_of_levels(levels, k) ==
    IF k = 0 THEN [exc |-> "none", value |-> <<>>]
    ELSE LET before == tasks_of_levels(levels, k - 1)
         IN  IF before.exc # "none" THEN before
             ELSE IF level_raises(levels[k])
             THEN [exc |-> "ZeroDivisionError", value |-> <<>>]
             ELSE [exc |-> "none",
                   value |-> dict_set(before.value, levels[k].level_name,
                                 level_tasks_of(levels[k], Len(levels[k].focuses)))]

generate_hierarchical_tasks(cfg) ==
    tasks_of_levels(cfg.focus_levels, Len(cfg.focus_levels))

\* ------------------------------------------------------------ agent_factory
\* n times: agents[f"agent_{agent_counter}"] = agent; agent_counter += 1
RECURSIVE add_agents(_, _, _)
add_agents(st, n, agent) ==
    IF n = 0 THEN st
    ELSE add_agents([agents |-> dict_set(st.agents, st.agent_counter, agent),
                     agent_counter |-> st.agent_counter + 1], n - 1, agent)

\* The agents of the first k focuses of a level.
RECURSIVE agents_of_focuses(_, _, _)
agents_of_focuses(st, level, k) ==
    IF k = 0 THEN st
    ELSE add_agents(agents_of_focuses(st, level, k - 1), share(level, k - 1),
                    [type |-> "focus", level |-> level.level_name,
                     focus_area |-> level.focuses[k]])

\* create_focus_level_agents, the first k levels done
RECURSIVE create_focus_level_agents(_, _)
create_focus_level_agents(levels, k) ==
    IF k = 0
    THEN [exc |-> "none", value |-> [agents |-> <<>>, agent_counter |-> 1]]
    ELSE LET before == create_focus_level_agents(levels, k - 1)
         IN  IF before.exc # "none" THEN before
             ELSE IF level_raises(levels[k])
             THEN [exc |-> "ZeroDivisionError", value |-> before.value]
             ELSE [exc |-> "none",
                   value |-> agents_of_focuses(before.value, levels[k],
                                               Len(levels[k].focuses))]

\* for agent_type in level.agent_types: for i in range(agent_type.num_agents)
RECURSIVE agents_of_types(_, _, _)
agents_of_types(st, types, group_type) ==
    IF types = <<>> THEN st
    ELSE agents_of_types(
             add_agents(st, Head(types).num_agents,
                        [type |-> group_type,
                         focus_area |-> Head(types).focus]),
             Tail(types), group_type)

\* create_specialized_agents(agent_group, start_idx, group_type), st holding
\* the agents made so far and the counter
RECURSIVE specialized_loop(_, _, _)
specialized_loop(st, agent_group, group_type) ==
    IF agent_group = <<>> THEN st
    ELSE specialized_loop(
             agents_of_types(st, Head(agent_group).agent_types, group_type),
             Tail(agent_group), group_type)

\* Faulty variant: each expansion numbers its agents from 1.
create_specialized_agents_own_counter(agent_group, start_idx, group_type) ==
    specialized_loop([agents |-> <<>>, agent_counter |-> 1],
                     agent_group, group_type)

create_specialized_agents(agent_group, start_idx, group_type) ==
    specialized_loop([agents |-> <<>>, agent_counter |-> start_idx],
                     agent_group, group_type)

agent_factory(cfg) ==
    LET focus == create_focus_level_agents(cfg.focus_levels,
                                           Len(cfg.focus_levels))
    IN  IF focus.exc # "none" THEN [exc |-> focus.exc, value |-> <<>>]
        ELSE IF cfg.analysis_agents.kind = "absent"
        THEN [exc |-> "AttributeError", value |-> <<>>]
        ELSE LET analysis == create_specialized_agents(
                                 cfg.analysis_agents.groups,
                                 focus.value.agent_counter, "analysis")
                 all_agents == dict_update(focus.value.agents, analysis.agents)
             IN  IF cfg.deep_dive_agents.kind = "none"
                 THEN [exc |-> "TypeError", value |-> <<>>]
                 ELSE LET deep_dive == create_specialized_agents(
                                           cfg.deep_dive_agents.groups,
                                           analysis.agent_counter, "deep_dive")
                      IN  [exc |-> "none",
                           value |-> dict_update(all_agents, deep_dive.agents)]

\* ------------------------------------------ the functions called on a Config
\* The focuses of a level: any names, repeated or not, or none at all (the
\* schema puts no condition on the list).
FocusLists == {<<>>} \cup {<<f>> : f \in FocusNames}
              \cup {<<f, g>> : f \in FocusNames, g \in FocusNames}

\* TaskFocusLevel: level_name, focuses, num_agents (gt = 0)
FocusLevels ==
    [level_name : LevelNames, focuses : FocusLists, num_agents : 1..MaxNumAgents]

\* config.focus_levels: at least one level (min_items = 1)
FocusLevelLists ==
    {<<a>> : a \in FocusLevels} \cup {<<a, b>> : a \in FocusLevels, b \in FocusLevels}

\* A list of agent groups (DeepDiveLevel), nums[g] the num_agents of the
\* agent types of group g in order.
AgentGroups(nums) ==
    [g \in 1..Len(nums) |->
        [agent_types |->
            [t \in 1..Len(nums[g]) |->
                [focus |-> <<"a", ToString(g), ToString(t)>>,
                 num_agents |-> nums[g][t]]]]]

AnalysisChoices ==
    {[kind |-> "absent", groups |-> <<>>],
     [kind |-> "list", groups |-> AgentGroups(<< <<2, 1>> >>)]}

DeepDiveChoices ==
    {[kind |-> "none", groups |-> <<>>],
     [kind |-> "list", groups |-> AgentGroups(<< <<1>>, <<1>> >>)]}

TaskInit ==
    /\ DispatcherIdle
    /\ TimeIdle
    /\ results = <<>> /\ chunks = <<>> /\ stage = "idle"
    /\ dd_config = [kind |-> "none", groups |-> <<>>]
    /\ PipeIdle
    /\ fconfig \in [focus_levels : FocusLevelLists,
                    analysis_agents : AnalysisChoices,
                    deep_dive_agents : DeepDiveChoices]
    /\ fpc = "loaded"
    /\ FrontIdle

\* tasks = generate_hierarchical_tasks(config), called on its own
CallGenerateTasks ==
    /\ fpc = "loaded"
    /\ LET r == generate_hierarchical_tasks(fconfig)
       IN  /\ task_tree' = r.value
           /\ raised' = IF r.exc = "none" THEN raised
                        ELSE raised \cup {"generate_hierarchical_tasks"}
    /\ fpc' = "tasks"
    /\ UNCHANGED <<fconfig, agents, task_list, pos, completed, snapshots,
                   arrivals>>

\* agents = agent_factory(config), called on its own
CallAgentFactory ==
    /\ fpc = "tasks"
    /\ LET r == agent_factory(fconfig)
       IN  /\ agents' = r.value
           /\ raised' = IF r.exc = "none" THEN raised
                        ELSE raised \cup {"agent_factory"}
    /\ fpc' = "agents"
    /\ UNCHANGED <<fconfig, task_tree, task_list, pos, completed, snapshots,
                   arrivals>>

TaskNext ==
    \/ CallGenerateTasks /\ UNCHANGED <<dvars, tvars, results, chunks, stage, pvars, mvars>>
    \/ CallAgentFactory /\ UNCHANGED <<dvars, tvars, results, chunks, stage, pvars, mvars>>

TaskSpec == TaskInit /\ [][TaskNext]_vars

\* ------------------------------------------------------------ execute_tasks
\* sum(... for group in config.analysis_agents) and sum(... for group in
\* config.deep_dive_agents): the exception the two sums end in, if any
\* (main l.194-195 and execute_tasks l.55-58)
count_agents_exc(cfg) ==
    IF cfg.analysis_agents.kind = "absent" THEN "AttributeError"
    ELSE IF cfg.deep_dive_agents.kind = "none" THEN "TypeError"
    ELSE "none"

\* A work item with its call, just created: the call is in flight and has
\* no value yet.
work_item(key, agent_id, level, focus) ==
    [key |-> key, agent |-> agent_id, level |-> level, focus |-> focus,
     state |-> "in_flight", value |-> None]

\* [(aid, a) for aid, a in agents.items() if a['type'] == 'focus'
\*  and a['level'] == level_name and a['focus_area'] == focus]
agents_for_focus(ags, level_name, focus) ==
    SelectSeq(ags, LAMBDA p : /\ p[2].type = "focus"
                              /\ p[2].level = level_name
                              /\ p[2].focus_area = focus)

\* Faulty variant: the agent taken stays in the list.
after_pop_keeps_agent(focus_agents) == focus_agents

\* focus_agents.pop(0): the list left
after_pop(focus_agents) == Tail(focus_agents)

\* for task_id, task_description in focus_tasks.items(): if focus_agents: ...
RECURSIVE group_items(_, _, _, _, _)
group_items(acc, level_name, focus, focus_tasks, focus_agents) ==
    IF focus_tasks = <<>> THEN acc
    ELSE IF focus_agents # <<>>
    THEN group_items(
             Append(acc, work_item(Head(focus_tasks)[1], Head(focus_agents)[1],
                                   level_name, focus)),
             level_name, focus, Tail(focus_tasks), after_pop(focus_agents))
    ELSE group_items(acc, level_name, focus, Tail(focus_tasks), focus_agents)

\* for focus, focus_tasks in level_tasks.items()
RECURSIVE level_items(_, _, _, _)
level_items(acc, level_name, level_tasks, ags) ==
    IF level_tasks = <<>> THEN acc
    ELSE level_items(
             group_items(acc, level_name, Head(level_tasks)[1],
                         Head(level_tasks)[2],
                         agents_for_focus(ags, level_name, Head(level_tasks)[1])),
             level_name, Tail(level_tasks), ags)

\* for level_name, level_tasks in tasks.items()
RECURSIVE focus_items(_, _, _)
focus_items(acc, tree, ags) ==
    IF tree = <<>> THEN acc
    ELSE focus_items(level_items(acc, Head(tree)[1], Head(tree)[2], ags),
                     Tail(tree), ags)

\* for agent_id, agent in agents.items(): if agent['type'] in ['analysis',
\* 'deep_dive']: the item has key f"{agent['type']}_{agent_id}", level
\* agent['type'] and focus agent['focus_area']
RECURSIVE specialized_items(_, _)
specialized_items(acc, ags) ==
    IF ags = <<>> THEN acc
    ELSE IF Head(ags)[2].type \in {"analysis", "deep_dive"}
    THEN specialized_items(
             Append(acc, work_item(<<Head(ags)[2].type, "_", "agent", "_",
                                     ToString(Head(ags)[1])>>,
                                   Head(ags)[1], <<Head(ags)[2].type>>,
                                   Head(ags)[2].focus_area)),
             Tail(ags))
    ELSE specialized_items(acc, Tail(ags))

\* The work items of execute_tasks(tasks, agents, ...), in list order.
make_task_list(tree, ags) == specialized_items(focus_items(<<>>, tree, ags), ags)

\* Faulty variant: every result is stored.
result_stored_always(value) == TRUE

\* if result
result_stored(value) == value # None

\* results[level][focus] when both keys are present, else no tasks
tasks_in(tree, level, focus) ==
    IF \E i \in 1..Len(tree) :
           /\ tree[i].level = level
           /\ \E j \in 1..Len(tree[i].groups) : tree[i].groups[j].focus = focus
    THEN LET i == CHOOSE i \in 1..Len(tree) : tree[i].level = level
             j == CHOOSE j \in 1..Len(tree[i].groups) :
                      tree[i].groups[j].focus = focus
         IN  tree[i].groups[j].tasks
    ELSE <<>>

\* focus_tasks[key] = result
put_task(focus_tasks, key, value) ==
    IF \E k \in 1..Len(focus_tasks) : focus_tasks[k].key = key
    THEN [k \in 1..Len(focus_tasks) |->
             IF focus_tasks[k].key = key THEN [key |-> key, len |-> value]
             ELSE focus_tasks[k]]
    ELSE Append(focus_tasks, [key |-> key, len |-> value])

\* results[level][focus][key] = result, the two dicts made when missing
store_result(tree, item) ==
    put_group(tree, item.level, item.focus,
              put_task(tasks_in(tree, item.level, item.focus), item.key,
                       item.value))

\* Faulty variant: the calls are awaited in the order they end.
awaited_as_completed ==
    IF pos <= Len(arrivals) THEN arrivals[pos] ELSE 0

\* for task_info in task_list: the item awaited now, 0 after the last
awaited == IF pos <= Len(task_list) THEN pos ELSE 0

\* ------------------------------------------------------------------ claims
\* d[k]
dict_get(d, k) == d[CHOOSE i \in 1..Len(d) : d[i][1] = k][2]

\* The tasks of a tree in stored order, each as <<level, focus, key>>.
TasksOfLevel(lv) ==
    Concat([i \in 1..Len(lv[2]) |->
               [j \in 1..Len(lv[2][i][2]) |-> <<lv[1], lv[2][i][1], lv[2][i][2][j][1]>>]],
           Len(lv[2]))

TaskTriples(tree) ==
    Concat([k \in 1..Len(tree) |-> TasksOfLevel(tree[k])], Len(tree))

\* generate_hierarchical_tasks was called and returned a tree.
TasksGenerated ==
    fpc \in {"tasks", "agents"} /\ "generate_hierarchical_tasks" \notin raised

\* C21: of a level with num_agents = B * len(focuses) + R, the first R
\* focuses in declared order have B + 1 tasks each in the tree and every
\* other focus has B.
C21_RemainderToFirstFocuses ==
    TasksGenerated =>
        \A k \in 1..Len(fconfig.focus_levels) :
            LET level == fconfig.focus_levels[k]
                B == level.num_agents \div Len(level.focuses)
                R == level.num_agents % Len(level.focuses)
            IN  \A i \in 1..Len(level.focuses) :
                    Len(dict_get(dict_get(task_tree, level.level_name),
                                 level.focuses[i]))
                        = IF i <= R THEN B + 1 ELSE B

\* The sum of num_agents over the first k focus levels.
RECURSIVE focus_task_count(_, _)
focus_task_count(levels, k) ==
    IF k = 0 THEN 0 ELSE levels[k].num_agents + focus_task_count(levels, k - 1)

\* C22: the number of tasks in the tree generate_hierarchical_tasks returns
\* is the sum of num_agents over the focus levels.
C22_TaskCountIsSumOfNumAgents ==
    TasksGenerated =>
        Len(TaskTriples(task_tree))
            = focus_task_count(fconfig.focus_levels, Len(fconfig.focus_levels))

\* No two elements of the sequence s are equal.
Distinct(s) == \A i, j \in 1..Len(s) : s[i] = s[j] => i = j

\* The level names are distinct, and so are the focus names of each level.
NamesDistinct ==
    /\ Distinct([k \in 1..Len(fconfig.focus_levels) |->
                    fconfig.focus_levels[k].level_name])
    /\ \A k \in 1..Len(fconfig.focus_levels) :
           Distinct(fconfig.focus_levels[k].focuses)

\* C23: when the level names are distinct and the focus names are distinct
\* within each level, no two tasks of the tree have the same key.
C23_TaskKeysDistinct ==
    TasksGenerated /\ NamesDistinct =>
        Distinct([n \in 1..Len(TaskTriples(task_tree)) |->
                     TaskTriples(task_tree)[n][3]])

\* The sum of num_agents over the agent types of the groups of a list.
RECURSIVE group_agent_count(_)
group_agent_count(groups) ==
    IF groups = <<>> THEN 0
    ELSE SumSeq([t \in 1..Len(Head(groups).agent_types) |->
                    Head(groups).agent_types[t].num_agents])
         + group_agent_count(Tail(groups))

\* agent_factory was called and returned a registry.
AgentsCreated == fpc = "agents" /\ "agent_factory" \notin raised

\* C25: the registry agent_factory returns holds one agent for each unit of
\* num_agents of the focus levels, of the analysis agent types and of the
\* deep-dive agent types, under the ids 1, 2, ... of one shared counter:
\* its size is the sum of the three counts and no id occurs twice.
C25_RegistrySizeIsSumOfCounts ==
    AgentsCreated =>
        /\ Len(agents)
             = focus_task_count(fconfig.focus_levels, Len(fconfig.focus_levels))
               + group_agent_count(fconfig.analysis_agents.groups)
               + group_agent_count(fconfig.deep_dive_agents.groups)
        /\ \A n \in 1..Len(agents) : agents[n][1] = n

\* C25 witness: a registry with focus, analysis and deep-dive agents, the
\* focus agents of two levels.
C25_AllThreeKindsCreated ==
    /\ AgentsCreated
    /\ Len(fconfig.focus_levels) = 2
    /\ \A ty \in {"focus", "analysis", "deep_dive"} :
           \E n \in 1..Len(agents) : agents[n][2].type = ty

\* ------------------------------------------------------------------- main
\* The lengths of the texts a successful call returns.
ReplyLengths == {495, LongText}

\* The focus levels of the runs of main.
MainFocusLevels ==
    {<<[level_name |-> <<"l">>, focuses |-> <<<<"x">>, <<"X">>>>, num_agents |-> 3]>>,
     <<[level_name |-> <<"l">>, focuses |-> <<<<"x">>>>, num_agents |-> 1],
       [level_name |-> <<"L">>, focuses |-> <<<<"x", " ", "x">>>>, num_agents |-> 2]>>,
     <<[level_name |-> <<"l">>, focuses |-> <<<<"x">>, <<"x">>>>, num_agents |-> 2]>>,
     <<[level_name |-> <<"l">>, focuses |-> <<>>, num_agents |-> 1]>>,
     <<[level_name |-> <<"l">>, focuses |-> <<<<"x">>>>, num_agents |-> 2],
       [level_name |-> <<"l", "_", "x">>, focuses |-> <<>>, num_agents |-> 1]>>}

MainInit ==
    /\ config \in [cpu_cores : {1},
                   agents_per_core : {1, 2},
                   items_per_batch : {1},
                   max_retries : {DefaultMaxRetries},
                   retry_delay : {RetryDelay}]
    /\ n_items = 0 /\ always_fail = FALSE /\ ppc = "idle"
    /\ returned = <<>> /\ agent_stats = <<>>
    /\ sem_value = 0 /\ sem_waiters = <<>>
    /\ loc = <<>> /\ attempts = <<>> /\ last_kind = <<>> /\ waits = <<>>
    /\ admitted = 0
    /\ TimeIdle
    /\ results = <<>> /\ chunks = <<>> /\ stage = "idle"
    /\ dd_config = [kind |-> "none", groups |-> <<>>]
    /\ PipeIdle
    /\ fconfig \in [focus_levels : MainFocusLevels,
                    analysis_agents :
                        {[kind |-> "absent", groups |-> <<>>],
                         [kind |-> "list", groups |-> AgentGroups(<< <<1>> >>)]},
                    deep_dive_agents :
                        {[kind |-> "none", groups |-> <<>>],
                         [kind |-> "list", groups |-> AgentGroups(<< <<1>> >>)]}]
    /\ fpc = "main"
    /\ FrontIdle

\* main l.193-198: the agents of the three kinds are counted
MainCountsAgents ==
    /\ fpc = "main"
    /\ IF count_agents_exc(fconfig) = "none"
       THEN fpc' = "counted" /\ raised' = raised
       ELSE fpc' = "failed" /\ raised' = raised \cup {"main"}
    /\ UNCHANGED <<fconfig, task_tree, agents, task_list, pos, completed,
                   snapshots, arrivals, results>>

\* main l.200: tasks = generate_hierarchical_tasks(config)
MainGeneratesTasks ==
    /\ fpc = "counted"
    /\ LET r == generate_hierarchical_tasks(fconfig)
       IN  IF r.exc = "none"
           THEN fpc' = "generated" /\ task_tree' = r.value /\ raised' = raised
           ELSE /\ fpc' = "failed" /\ task_tree' = task_tree
                /\ raised' = raised \cup {"generate_hierarchical_tasks"}
    /\ UNCHANGED <<fconfig, agents, task_list, pos, completed, snapshots,
                   arrivals, results>>

\* main l.201: agents = agent_factory(config)
MainCreatesAgents ==
    /\ fpc = "generated"
    /\ LET r == agent_factory(fconfig)
       IN  IF r.exc = "none"
           THEN fpc' = "created" /\ agents' = r.value /\ raised' = raised
           ELSE /\ fpc' = "failed" /\ agents' = agents
                /\ raised' = raised \cup {"agent_factory"}
    /\ UNCHANGED <<fconfig, task_tree, task_list, pos, completed, snapshots,
                   arrivals, results>>

\* main l.204, execute_tasks l.50-120: the totals are computed and a call is
\* created for every work item; at the first await the calls all start.
ExecuteTasksStarts ==
    /\ fpc = "created"
    /\ IF count_agents_exc(fconfig) = "none"
       THEN /\ task_list' = make_task_list(task_tree, agents)
            /\ pos' = 1
            /\ fpc' = "awaiting"
            /\ raised' = raised
       ELSE /\ fpc' = "failed" /\ raised' = raised \cup {"execute_tasks"}
            /\ UNCHANGED <<task_list, pos>>
    /\ UNCHANGED <<fconfig, task_tree, agents, completed, snapshots, arrivals,
                   results>>

\* make_api_call of the k-th work item returns a text or None
WorkCallEnds(k) ==
    /\ fpc = "awaiting"
    /\ task_list[k].state = "in_flight"
    /\ \E v \in {None} \cup ReplyLengths :
           task_list' = [task_list EXCEPT ![k].state = "ended", ![k].value = v]
    /\ arrivals' = Append(arrivals, k)
    /\ UNCHANGED <<fconfig, task_tree, agents, fpc, pos, completed, snapshots,
                   raised, results>>

\* execute_tasks l.124-149: result = await task_info["task"] returns and the
\* body of the loop runs
AwaitReturns ==
    /\ fpc = "awaiting"
    /\ awaited # 0
    /\ task_list[awaited].state = "ended"
    /\ LET item == task_list[awaited]
           done == IF result_stored(item.value) THEN completed + 1 ELSE completed
       IN  /\ results' = IF result_stored(item.value)
                         THEN store_result(results, item) ELSE results
           /\ completed' = done
           /\ snapshots' = IF done % 10 = 0 THEN Append(snapshots, done)
                           ELSE snapshots
    /\ pos' = pos + 1
    /\ UNCHANGED <<fconfig, task_tree, agents, fpc, task_list, arrivals, raised>>

\* execute_tasks l.151: return results
ExecuteTasksReturns ==
    /\ fpc = "awaiting"
    /\ pos > Len(task_list)
    /\ fpc' = "returned"
    /\ UNCHANGED <<fconfig, task_tree, agents, task_list, pos, completed,
                   snapshots, arrivals, raised, results>>

MainNext ==
    \/ MainCountsAgents /\ UNCHANGED <<dvars, tvars, chunks, stage, pvars, mvars>>
    \/ MainGeneratesTasks /\ UNCHANGED <<dvars, tvars, chunks, stage, pvars, mvars>>
    \/ MainCreatesAgents /\ UNCHANGED <<dvars, tvars, chunks, stage, pvars, mvars>>
    \/ ExecuteTasksStarts /\ UNCHANGED <<dvars, tvars, chunks, stage, pvars, mvars>>
    \/ (\E k \in 1..Len(task_list) : WorkCallEnds(k))
           /\ UNCHANGED <<dvars, tvars, chunks, stage, pvars, mvars>>
    \/ AwaitReturns /\ UNCHANGED <<dvars, tvars, chunks, stage, pvars, mvars>>
    \/ ExecuteTasksReturns /\ UNCHANGED <<dvars, tvars, chunks, stage, pvars, mvars>>

MainSpec == MainInit /\ [][MainNext]_vars

\* ------------------------------------------------- claims on main's runs
\* Some focus level of the Config has no focuses.
HasEmptyLevel ==
    \E k \in 1..Len(fconfig.focus_levels) :
        Len(fconfig.focus_levels[k].focuses) = 0

\* C24: a run on a Config with a focus level without focuses fails before
\* agent_factory is called and before any remote call is created: it never
\* gets past generate_hierarchical_tasks, no agent and no work item exists.
C24_EmptyFocusesFailBeforeAgents ==
    HasEmptyLevel =>
        /\ fpc \in {"main", "counted", "failed"}
        /\ raised \subseteq {"main", "generate_hierarchical_tasks"}
        /\ agents = <<>>
        /\ task_list = <<>>

\* C24 witness: the second level has no focuses; the run got to
\* generate_hierarchical_tasks and failed in it.
C24_RejectedInGenerateTasks ==
    /\ fpc = "failed"
    /\ Len(fconfig.focus_levels) = 2
    /\ Len(fconfig.focus_levels[1].focuses) > 0
    /\ HasEmptyLevel
    /\ raised = {"generate_hierarchical_tasks"}
    /\ agents = <<>>

\* execute_tasks has created its calls.
CallsIssued == fpc \in {"awaiting", "returned"}

\* The work items (by position) holding the task <<level, focus, key>>.
ItemsOfTask(e) ==
    {k \in 1..Len(task_list) :
        /\ task_list[k].level = e[1]
        /\ task_list[k].focus = e[2]
        /\ task_list[k].key = e[3]}

\* The ids of the analysis and deep-dive agents of the registry.
SpecializedIds ==
    {agents[n][1] : n \in {m \in 1..Len(agents) :
                              agents[m][2].type \in {"analysis", "deep_dive"}}}

\* C26: execute_tasks issues exactly one call for each task of the task tree
\* and one for each analysis or deep-dive agent and no other; no agent is
\* bound to two work items, and the agent of a focus task is a focus agent of
\* the task's level and focus.
C26_EachWorkItemOneCall ==
    CallsIssued =>
        /\ \A n \in 1..Len(TaskTriples(task_tree)) :
               Cardinality(ItemsOfTask(TaskTriples(task_tree)[n])) = 1
        /\ \A id \in SpecializedIds :
               Cardinality({k \in 1..Len(task_list) : task_list[k].agent = id}) = 1
        /\ Len(task_list)
             = Len(TaskTriples(task_tree)) + Cardinality(SpecializedIds)
        /\ \A k, m \in 1..Len(task_list) :
               task_list[k].agent = task_list[m].agent => k = m
        /\ \A k \in 1..Len(task_list) :
               LET a == dict_get(agents, task_list[k].agent)
               IN  IF task_list[k].agent \in SpecializedIds
                   THEN /\ task_list[k].level = <<a.type>>
                        /\ task_list[k].focus = a.focus_area
                   ELSE /\ a.type = "focus"
                        /\ a.level = task_list[k].level
                        /\ a.focus_area = task_list[k].focus

\* C26 witness: calls for a focus group of two tasks, for a focus group of
\* one task and for an analysis and a deep-dive agent.
C26_FocusAndSpecializedCalls ==
    /\ CallsIssued
    /\ Len(task_list) = 5
    /\ \E k \in 1..Len(task_list) - 1 :
           /\ task_list[k].focus = task_list[k + 1].focus
           /\ task_list[k].level = task_list[k + 1].level
    /\ Cardinality(SpecializedIds) = 2

\* The work items (by position) whose call returned a value.
Successes == {k \in 1..Len(task_list) : task_list[k].value # None}

\* The tree holds the value v under level, focus and key.
Holds(tree, level, focus, key, v) ==
    \E t \in SeqRange(tasks_in(tree, level, focus)) : t.key = key /\ t.len = v

\* C27: the tree execute_tasks returns holds exactly the work items whose
\* call returned a value, each under its level, focus and key with the text
\* returned; an item whose call failed is nowhere in the tree and the items
\* after it are still aggregated.
C27_TreeHoldsExactlySuccesses ==
    fpc = "returned" =>
        /\ \A k \in Successes :
               Holds(results, task_list[k].level, task_list[k].focus,
                     task_list[k].key, task_list[k].value)
        /\ \A k \in (1..Len(task_list)) \ Successes :
               \A e \in SeqRange(EntriesOf(results)) :
                   e # <<task_list[k].level, task_list[k].focus, task_list[k].key>>
        /\ Len(EntriesOf(results)) = Cardinality(Successes)

\* C27 witness: the call of the first work item failed and calls of later
\* items, the last one among them, returned a value.
C27_ReturnedAfterFailedCall ==
    /\ fpc = "returned"
    /\ Len(task_list) >= 3
    /\ 1 \notin Successes
    /\ Len(task_list) \in Successes
    /\ Cardinality(Successes) >= 2

\* The elements of a sequence in the order of their first occurrence.
RECURSIVE FirstSeen(_)
FirstSeen(s) ==
    IF s = <<>> THEN <<>>
    ELSE <<Head(s)>> \o SelectSeq(FirstSeen(Tail(s)), LAMBDA x : x # Head(s))

\* The successful work items in list order.
SuccessList == SelectSeq(task_list, LAMBDA it : it.value # None)

\* The entries the successful items give when they are grouped by level and
\* by focus, levels and focuses in the order the list first names them.
ListOrderEntries ==
    LET levels == FirstSeen([k \in 1..Len(SuccessList) |-> SuccessList[k].level])
        of_level(lv) == SelectSeq(SuccessList, LAMBDA it : it.level = lv)
        focuses(lv) == FirstSeen([k \in 1..Len(of_level(lv)) |->
                                     of_level(lv)[k].focus])
        of_focus(lv, fo) == SelectSeq(of_level(lv), LAMBDA it : it.focus = fo)
        entries(lv, fo) == [k \in 1..Len(of_focus(lv, fo)) |->
                               <<lv, fo, of_focus(lv, fo)[k].key>>]
        level_entries(lv) ==
            Concat([j \in 1..Len(focuses(lv)) |-> entries(lv, focuses(lv)[j])],
                   Len(focuses(lv)))
    IN  Concat([i \in 1..Len(levels) |-> level_entries(levels[i])], Len(levels))

\* C28: the order of the levels, focuses and keys of the tree returned, and
\* of the chunks made from it, is fixed by the list of work items and by
\* which calls succeeded, whatever the order in which the calls ended.
C28_TreeOrderFollowsItemList ==
    fpc = "returned" =>
        /\ EntriesOf(results) = ListOrderEntries
        /\ ChunkEntries(chunk_hierarchical_results(results)) = ListOrderEntries

\* C28 witness: the call of the last work item ended first, the call of the
\* first item ended last, and both returned a value.
C28_CallsEndedOutOfOrder ==
    /\ fpc = "returned"
    /\ Len(task_list) >= 3
    /\ arrivals[1] = Len(task_list)
    /\ arrivals[Len(arrivals)] = 1
    /\ {1, Len(task_list)} \subseteq Successes
    /\ task_list[1].level # task_list[Len(task_list)].level

\* The calls of execute_tasks in flight.
WorkCallsInFlight == {k \in 1..Len(task_list) : task_list[k].state = "in_flight"}

\* C29: during execute_tasks the number of remote calls in flight never
\* exceeds the width of the Dispatcher's gate.
C29_InFlightWithinGateWidth == Cardinality(WorkCallsInFlight) <= Capacity

\* C33: execute_tasks writes an intermediate snapshot only when the count of
\* completed items reaches a new positive multiple of 10: every snapshot
\* records a positive multiple of 10 and no two snapshots of a run record
\* the same count.
C33_SnapshotsAtNewMultiplesOfTen ==
    /\ \A n \in 1..Len(snapshots) : snapshots[n] > 0 /\ snapshots[n] % 10 = 0
    /\ \A n, m \in 1..Len(snapshots) : snapshots[n] = snapshots[m] => n = m

\* The summarization calls made for chunk i.
CallsForChunk(i) == {n \in CallsOfKind("chunk") : calls[n].a = i}

\* C31: a chunk whose summarization call fails is attempted again, up to
\* max_retries attempts in all, before it is dropped: once the chunk stage
\* is over, a chunk without a summary has had max_retries calls.
C31_FailedChunkRetried ==
    ChunkStageOver =>
        \A i \in (1..Len(chunks)) \ SummarizedChunks :
            Cardinality(CallsForChunk(i)) = config.max_retries

\* The batch workers that have started and not yet finished.
RunningWorkers == {w \in DOMAIN loc : loc[w].pc \notin {"start", "done"}}

\* C32: at no instant of process_items do two running batch workers have the
\* same agent_id.
C32_OneWorkerPerLane ==
    \A w, v \in RunningWorkers : AgentOf(w) = AgentOf(v) => w = v

\* The items whose last attempt came back, with or without a value.
CameBack == {i \in Items : last_kind[i] \in {"ok", "none"}}

\* C34: the list process_items returns holds one entry for every item with
\* an attempt that came back, the value of that attempt, and no entry for an
\* item that used up its attempts; the entries are in the order of the input
\* items, whatever the order in which the calls ended.
C34_ResultsInInputOrder ==
    ppc = "returned" =>
        returned = [k \in 1..Cardinality(CameBack) |->
                       ResultOf(Ascending(CameBack)[k],
                                last_kind[Ascending(CameBack)[k]])]

\* C34 witness: three items in three batches; the first succeeds after a
\* retry, the second uses up its attempts, the third succeeds at once.
C34_FailedItemBetweenSuccesses ==
    /\ ppc = "returned"
    /\ n_items = 3 /\ config.items_per_batch = 1
    /\ last_kind[1] = "ok" /\ attempts[1] >= 2
    /\ last_kind[2] \in FailKinds
    /\ last_kind[3] = "ok" /\ attempts[3] = 1
    /\ returned = <<1, 3>>

\* C35: an item is attempted at most max_retries times and never again after
\* an attempt of it came back: a finished item whose last attempt came back
\* had only failed attempts before it, a finished item without such an
\* attempt had max_retries attempts, and no step adds an attempt to an item
\* whose last attempt came back.
C35_AttemptsStopAtSuccessOrLimit ==
    /\ [](\A i \in Items :
             /\ attempts[i] <= config.max_retries
             /\ Finished(i) =>
                    IF i \in CameBack
                    THEN attempts[i] >= 1 /\ Len(waits[i]) = attempts[i] - 1
                    ELSE attempts[i] = config.max_retries)
    /\ [][\A i \in Items : i \in CameBack => attempts'[i] = attempts[i]]_vars

\* C35 witness: with max_retries = 3 one item succeeded at its second
\* attempt and another failed three times.
C35_SecondAttemptSucceeded ==
    /\ config.max_retries = 3
    /\ \E i, j \in Items :
          /\ Finished(i) /\ last_kind[i] = "ok" /\ attempts[i] = 2
          /\ Finished(j) /\ last_kind[j] \in FailKinds /\ attempts[j] = 3

\* C36: a worker holds no admission slot while it waits out a retry backoff.
\* The step in which a failed attempt starts its backoff gives the slot back
\* (the gate's value goes up by one, or a queued worker is granted the slot);
\* a sleeping worker is never among the holders, so the slots in use and the
\* free ones add up to the capacity without it; and the step that ends the
\* backoff acquires again: the worker is admitted anew, taking a slot, or
\* queues for one without being admitted.
Sleepers == {w \in DOMAIN loc : loc[w].pc = "sleep"}

C36_NoSlotHeldDuringBackoff ==
    /\ [](Sleepers # {} =>
             /\ Sleepers \cap Holders = {}
             /\ Cardinality(Holders) <= Capacity
             /\ sem_value = Capacity - Cardinality(Holders))
    /\ [][\A w \in DOMAIN loc \cap DOMAIN loc' :
             /\ (loc[w].pc = "call" /\ loc'[w].pc = "sleep") =>
                    \/ sem_value' = sem_value + 1
                    \/ \E v \in DOMAIN loc :
                          loc[v].pc = "wait" /\ loc'[v].pc = "granted"
             /\ (loc[w].pc = "sleep" /\ loc'[w].pc # "sleep") =>
                    \/ /\ loc'[w].pc = "call"
                       /\ sem_value' = sem_value - 1
                       /\ admitted' = admitted + 1
                    \/ /\ loc'[w].pc = "wait"
                       /\ sem_value' = sem_value
                       /\ admitted' = admitted]_vars

\* A worker sleeps through its backoff while the gate is full of other
\* workers' calls: they were admitted during the wait.
C36_GateFullDuringBackoff ==
    /\ Sleepers # {}
    /\ Cardinality(InFlight) = Capacity
    /\ sem_value = 0

\* ======================================================================
\* Part 5: Discussion.prune_messages (utils/schemas.py)
\* ======================================================================
\* A Message is a record [id, role, length, timestamp]: id is its position in
\* the discussion as built, length is len(content).
MaxMessages == 13
MaxMaxMessages == 13

\* last_n = 10
last_n == 10

\* The ways the roles, the content lengths and the timestamps of a discussion
\* are laid out over its messages.
RoleLayouts == {"all_user", "system_even", "system_third"}
LengthLayouts == {"equal", "growing", "shrinking"}
StampLayouts == {"distinct", "same_instant"}

\* Message(content=..., role=...) in position i of a discussion of n messages;
\* timestamp defaults to datetime.now().
Message(layout, n, i) ==
    [id        |-> i,
     role      |-> IF \/ layout.roles = "system_even" /\ i % 2 = 0
                      \/ layout.roles = "system_third" /\ i % 3 = 0
                   THEN "system" ELSE "user",
     length    |-> CASE layout.lengths = "equal" -> 1
                     [] layout.lengths = "growing" -> i
                     [] OTHER -> n + 1 - i,
     timestamp |-> IF layout.stamps = "distinct" THEN i ELSE 0]

\* The order of Python tuples (a, b) of two numbers.
tuple_less(a, b) == a[1] < b[1] \/ (a[1] = b[1] /\ a[2] < b[2])

\* sorted(seq, key=..., reverse=...), keys[k] being the key of seq[k]: a stable
\* sort, with reverse=True as well (equal keys keep their order).
RECURSIVE sorted(_, _, _)
sorted(seq, keys, reverse) ==
    IF seq = <<>> THEN <<>>
    ELSE LET n == Len(seq)
             before(a, b) == IF reverse THEN tuple_less(b, a) ELSE tuple_less(a, b)
             i == CHOOSE i \in 1..n :
                     /\ \A j \in 1..n : ~before(keys[j], keys[i])
                     /\ \A j \in 1..(i - 1) : before(keys[i], keys[j])
             rest(s) == SubSeq(s, 1, i - 1) \o SubSeq(s, i + 1, n)
         IN  <<seq[i]>> \o sorted(rest(seq), rest(keys), reverse)

\* self.messages[-last_n:]
recent_messages(msgs) ==
    IF Len(msgs) <= last_n THEN msgs
    ELSE SubSeq(msgs, Len(msgs) - last_n + 1, Len(msgs))

\* self.messages[1:-last_n]
middle_messages(msgs) ==
    IF Len(msgs) - last_n < 2 THEN <<>>
    ELSE SubSeq(msgs, 2, Len(msgs) - last_n)

\* sorted(middle_messages, key=lambda m: (m.role == "system", len(m.content)),
\*        reverse=True)
prioritized(msgs) ==
    LET mid == middle_messages(msgs)
    IN  sorted(mid,
               [k \in 1..Len(mid) |->
                   <<IF mid[k].role = "system" THEN 1 ELSE 0, mid[k].length>>],
               TRUE)

\* keep_count = self.max_messages - (1 + last_n)
keep_count(mm) == mm - (1 + last_n)

\* prioritized[:keep_count] if keep_count > 0 else []
kept_middle(msgs, mm) ==
    LET p == prioritized(msgs)
    IN  IF keep_count(mm) > 0
        THEN IF keep_count(mm) >= Len(p) THEN p ELSE SubSeq(p, 1, keep_count(mm))
        ELSE <<>>

\* Discussion.prune_messages: the exception it ends in, if any, and
\* self.messages afterwards.
prune_messages(msgs, mm) ==
    IF Len(msgs) <= mm
    THEN [exc |-> "none", value |-> msgs]
    ELSE IF msgs = <<>>
         THEN [exc |-> "IndexError", value |-> msgs]
         ELSE LET first_message == msgs[1]
                  kept == kept_middle(msgs, mm) \o recent_messages(msgs)
              IN  [exc |-> "none",
                   value |-> <<first_message>> \o
                             sorted(kept,
                                    [k \in 1..Len(kept) |-> <<0, kept[k].timestamp>>],
                                    FALSE)]

\* A Discussion of up to MaxMessages messages with some max_messages (the
\* field has no lower bound), before prune_messages is called.
DiscussionInit ==
    /\ DispatcherIdle
    /\ TimeIdle
    /\ results = <<>> /\ chunks = <<>> /\ stage = "idle"
    /\ dd_config = [kind |-> "none", groups |-> <<>>]
    /\ PipeIdle
    /\ fconfig = [focus_levels |-> <<>>,
                  analysis_agents |-> [kind |-> "absent", groups |-> <<>>],
                  deep_dive_agents |-> [kind |-> "none", groups |-> <<>>]]
    /\ fpc = "idle"
    /\ task_tree = <<>> /\ agents = <<>> /\ task_list = <<>>
    /\ pos = 0 /\ completed = 0 /\ snapshots = <<>>
    /\ arrivals = <<>> /\ raised = {}
    /\ \E n \in 0..MaxMessages :
       \E layout \in [roles : RoleLayouts, lengths : LengthLayouts,
                      stamps : StampLayouts] :
          messages = [i \in 1..n |-> Message(layout, n, i)]
    /\ max_messages \in -1..MaxMaxMessages
    /\ original = messages
    /\ dpc = "built"

\* discussion.prune_messages()
PruneMessages ==
    /\ dpc = "built"
    /\ LET r == prune_messages(messages, max_messages)
       IN  /\ messages' = r.value
           /\ dpc' = IF r.exc = "none" THEN "pruned" ELSE "raised"
    /\ UNCHANGED <<max_messages, original>>

DiscussionNext ==
    PruneMessages /\ UNCHANGED <<dvars, tvars, results, chunks, stage, pvars, fvars>>

DiscussionSpec == DiscussionInit /\ [][DiscussionNext]_vars

\* ------------------------------------------------- claims on the discussion
\* The number of times message m stands in the list msgs.
Occurrences(msgs, m) == Cardinality({k \in 1..Len(msgs) : msgs[k] = m})

\* C37: after prune_messages the discussion holds at most max_messages
\* messages, all of them messages it held before and each at most once, the
\* first message still first; a discussion of at most max_messages messages
\* is left as it was.
C37_PrunedWithinMaxMessages ==
    dpc = "pruned" =>
        /\ Len(messages) <= max_messages
        /\ \A k \in 1..Len(messages) : Occurrences(original, messages[k]) >= 1
        /\ \A k \in 1..Len(original) : Occurrences(messages, original[k]) <= 1
        /\ original # <<>> => messages # <<>> /\ messages[1] = original[1]
        /\ Len(original) <= max_messages => messages = original
====
